---- MODULE Spec2Model ----
(***************************************************************************)
(* A state-machine model of the bamboo world server: the world's chunk     *)
(* map, player map and EID counter (server/src/world/mod.rs), the          *)
(* per-player tick (server/src/player/mod.rs) and the connection receive   *)
(* loop (server/src/net/mod.rs).                                           *)
(*                                                                         *)
(* Conventions.  A position (FPos) is a triple of integers counted in      *)
(* units of 1/UnitsPerBlock block, so every value used is an exact f64.    *)
(* Angles are whole degrees.  A HashMap is a function whose DOMAIN is the  *)
(* set of keys.  The world is observed on a window of chunks (ChunkWin)    *)
(* and, inside each chunk, on the cells RelCells.                          *)
(***************************************************************************)
EXTENDS Integers, Sequences, FiniteSets, TLC

VARIABLES
  chunks,     \* World.chunks: ChunkPos -> cells of the chunk (window only)
  inserted,   \* history: how many chunk objects were inserted per position
  written,    \* history: the type last written to every observed cell
  players,    \* World.players: UUID -> player object
  pl,         \* the Player objects, keyed by their connection
  outbox,     \* per connection, the packets handed to Connection::send
  lastSent,   \* history: per connection, the packets the last operation sent
  tasks,      \* connections whose reader and tick tasks were spawned
  eid,        \* World.eid
  steps,      \* number of operations performed so far
  lastOp,     \* history: the operation performed last
  thr,        \* threads inside World::chunk: position in the code, key, chunk used
  rmap,       \* World.chunks as those threads see it: ChunkPos -> chunk object
  rins,       \* history: chunk objects inserted per position by World::chunk
  locks,      \* holders of the chunks RwLock and of the generators RwLock
  mtx,        \* holders of the per-chunk mutexes
  gens,       \* World.generators: the threads that own a generator
  ethr,       \* threads inside World::eid
  elog,       \* history: invocations and returns of World::eid, in order
  pmap,       \* World.players as the tasks see it: the connections in the map
  pmtx,       \* holder of the mutex around World.players
  cst,        \* per connection: inbound stream, closed flag, outbound queue length
  ptask,      \* per connection: position of its reader task and tick task
  gtask,      \* position of the world's global tick task
  jsr,        \* JavaStreamReader: bytes on the wire, ring buffer, results
  pv,         \* PacketVersion: a version's packet list and its ids table
  conv,       \* TypeConverter: the last conversion asked for and its result
  lit,        \* a chunk's blocks with its BlockLightChunk and SkyLightChunk
  plug,       \* the plugin's ON_BLOCK_PLACE slot and the handler calls made
  pinv,       \* PlayerInventory
  ser,        \* chunk serialization: the last call and its outcome
  mspt,       \* the tick-time counter, the tick loops and the footers sent
  prs,        \* command Parser: the last parse and its result
  blk,        \* sc_data Block: the block whose states were listed
  lq,         \* a light update in progress: its queues and the levels
  mesh        \* the client's MeshChunk

worldVars ==
  <<chunks, inserted, written, players, pl, outbox, lastSent, tasks, steps, lastOp>>
raceVars == <<thr, rmap, rins, locks, mtx, gens>>
eidVars == <<ethr, elog>>
taskVars == <<pmap, pmtx, cst, ptask, gtask>>

lateVars == <<ser, mspt, prs, blk, lq, mesh>>
earlyData == <<pv, conv, lit, plug, pinv>>
dataVars == <<pv, conv, lit, plug, pinv, lateVars>>
baseVars == <<worldVars, eid, raceVars, eidVars, taskVars, jsr>>

vars == <<worldVars, eid, raceVars, eidVars, taskVars, jsr, dataVars>>

----------------------------------------------------------------------------
(* Bounds of the model *)

MaxSteps == 3
MaxBlockOps == 3
MaxStreamSteps == 5
MaxTickSteps == 5
MaxConns == 2
MaxThreads == 3
MaxEidCalls == 3
MaxViewSteps == 5
MaxLoopTicks == 1
MaxGlobalTicks == 1
ChanCap == 1
MaxLog == 3
MaxProxyEvents == 1
MaxFrames == 2

(* Program constants *)

ViewDistance == 10
ChunkMaxRel == 15
SpawnY == 60
FirstEid == 1
KeepAlivePeriod == 20
HeaderPeriod == 20
RingCapacity == 1024

ChunkWidth == ChunkMaxRel + 1
WorldHeight == 2 ^ 8
UnitsPerBlock == 2 ^ 13
I8Max == 2 ^ 7 - 1
I16Max == 2 ^ 15 - 1
I8Min == 0 - 2 ^ 7

UUIDs == {"u1", "u2"}
Versions == <<"V1_8", "V1_12_2", "V1_16_2">>
VersionSet == {Versions[i] : i \in 1..Len(Versions)}
VerOrd(v) == CHOOSE i \in 1..Len(Versions) : Versions[i] = v
Conns == 1..MaxConns
Threads == 1..MaxThreads

KickMsg == "Another player with the same id is already connected!"

----------------------------------------------------------------------------
(* Arithmetic helpers *)

Abs(n) == IF n < 0 THEN 0 - n ELSE n
Min2(a, b) == IF a < b THEN a ELSE b
Max2(a, b) == IF a > b THEN a ELSE b

(* f64/f32 round(): n/d rounded to the nearest integer, ties away from 0. *)
RoundDiv(n, d) ==
  IF n >= 0 THEN (2 * n + d) \div (2 * d) ELSE 0 - ((2 * (0 - n) + d) \div (2 * d))

(* Rust's % on floats: the remainder has the sign of the dividend. *)
RemTrunc(a, b) == IF a >= 0 THEN a % b ELSE 0 - ((0 - a) % b)

(* Rust's `as i8` / `as i16` on a float: saturating. *)
SatI8(n) == IF n > I8Max THEN I8Max ELSE IF n < I8Min THEN I8Min ELSE n

(* The signed byte congruent to n modulo 256. *)
WrapI8(n) == ((n - I8Min) % (2 ^ 8)) + I8Min

----------------------------------------------------------------------------
(* Positions *)

PosX(p) == p[1]
PosY(p) == p[2]
PosZ(p) == p[3]

Pos_chunk(p) == <<PosX(p) \div ChunkWidth, PosZ(p) \div ChunkWidth>>
Pos_chunk_rel(p) == <<PosX(p) % ChunkWidth, PosY(p), PosZ(p) % ChunkWidth>>

FPos_block(f) ==
  <<PosX(f) \div UnitsPerBlock, PosY(f) \div UnitsPerBlock, PosZ(f) \div UnitsPerBlock>>
FPos_chunk(f) == Pos_chunk(FPos_block(f))
BlocksToFPos(x, y, z) == <<x * UnitsPerBlock, y * UnitsPerBlock, z * UnitsPerBlock>>

SpawnPos == BlocksToFPos(0, SpawnY, 0)

----------------------------------------------------------------------------
(* The observed window of the world *)

WinCX == {9, 10, 11}
WinCZ == {0, 1}
ChunkWin == WinCX \X WinCZ
RelXZ == {0, ChunkMaxRel}
RelY == {0, WorldHeight - 1}
RelCells == RelXZ \X RelY \X RelXZ
WorldCells ==
  {<<c[1] * ChunkWidth + r[1], r[2], c[2] * ChunkWidth + r[3]>> : c \in ChunkWin, r \in RelCells}

(* Inputs of set_block and fill *)
InPos ==
  {<<159, 0, 15>>, <<175, 0, 16>>, <<159, WorldHeight - 1, 15>>,
   <<176, WorldHeight - 1, 16>>, <<175, WorldHeight, 16>>}
InTypes == {0, 2}

----------------------------------------------------------------------------
(* Chunks *)

(* WorldGen::generate: the generated type of a cell (bedrock floor, air above). *)
GenCell(cpos, rel) == IF rel[2] = 0 THEN 1 ELSE 0

MultiChunk_new(cpos) == [r \in RelCells |-> GenCell(cpos, r)]

InWorldRel(rel) ==
  /\ rel[1] >= 0 /\ rel[1] <= ChunkMaxRel
  /\ rel[2] >= 0 /\ rel[2] < WorldHeight
  /\ rel[3] >= 0 /\ rel[3] <= ChunkMaxRel

(* MultiChunk::set_type: PosError outside the chunk, else the cell is written. *)
MultiChunk_set_type(cells, rel, ty) ==
  IF ~InWorldRel(rel) THEN [ok |-> FALSE, cells |-> cells]
  ELSE [ok |-> TRUE,
        cells |-> [r \in RelCells |-> IF r = rel THEN ty ELSE cells[r]]]

(* MultiChunk::fill: PosError if a corner is outside the chunk, else the box is written. *)
MultiChunk_fill(cells, lo, hi, ty) ==
  IF ~InWorldRel(lo) \/ ~InWorldRel(hi) THEN [ok |-> FALSE, cells |-> cells]
  ELSE [ok |-> TRUE,
        cells |-> [r \in RelCells |->
                     IF /\ lo[1] <= r[1] /\ r[1] <= hi[1]
                        /\ lo[2] <= r[2] /\ r[2] <= hi[2]
                        /\ lo[3] <= r[3] /\ r[3] <= hi[3]
                     THEN ty ELSE cells[r]]]

(* HashMap::insert on the chunk map (the window's part of it). *)
MapInsert(m, k, v) == [q \in (DOMAIN m) \cup {k} |-> IF q = k THEN v ELSE m[q]]

(* World::chunk, the miss path: generate and insert only when the key is absent. *)
World_chunk_ensure(ch, cpos) ==
  IF cpos \in DOMAIN ch \/ cpos \notin ChunkWin THEN ch
  ELSE MapInsert(ch, cpos, MultiChunk_new(cpos))

CountInsert(ins, ch, cpos) ==
  IF cpos \in DOMAIN ch \/ cpos \notin ChunkWin THEN ins
  ELSE [ins EXCEPT ![cpos] = @ + 1]

(* Reading a block through World::chunk (generate on miss). *)
ReadBlock(ch, pos) ==
  IF Pos_chunk(pos) \in DOMAIN ch THEN ch[Pos_chunk(pos)][Pos_chunk_rel(pos)]
  ELSE GenCell(Pos_chunk(pos), Pos_chunk_rel(pos))

----------------------------------------------------------------------------
(* Type conversion and views *)

(* The generated tables of the old versions, one table for all of them.
   A table is indexed by the id (from 0 in the code, from 1 here).  Air is
   id 0 in every version and maps to air; a latest id that an old version
   lacks maps to 0 as well, so several latest ids convert to air and
   to_new[0] is not air. *)
BlockToOldTable == <<0, 35, 0>>
BlockToNewTable == <<2, 1>>
ItemToOldTable == <<<<0, 0>>, <<1, 0>>, <<1, 1>>, <<0, 0>>>>
ItemToNewTable == <<<<3>>, <<1, 2>>>>
EntityToOldTable == <<0, 50, 0>>
EntityToNewTable == <<2, 0, 0>>
LatestBlockVersion == "V1_16_2"

(* TypeConverter::block_to_new *)
block_to_new_table_first(id, ver) ==
  IF ver = LatestBlockVersion THEN id
  ELSE IF id + 1 \in 1..Len(BlockToNewTable) THEN BlockToNewTable[id + 1]
  ELSE 0
block_to_new(id, ver) ==
  IF id = 0 THEN 0
  ELSE IF ver = LatestBlockVersion THEN id
  ELSE IF id + 1 \in 1..Len(BlockToNewTable) THEN BlockToNewTable[id + 1]
  ELSE 0

(* TypeConverter::block_to_old *)
block_to_old(id, ver) ==
  IF ver = LatestBlockVersion THEN id
  ELSE IF id + 1 \in 1..Len(BlockToOldTable) THEN BlockToOldTable[id + 1]
  ELSE 0

(* TypeConverter::item_to_new *)
item_to_new(id, damage, ver) ==
  IF id = 0 THEN 0
  ELSE IF ver = LatestBlockVersion THEN id
  ELSE IF id + 1 \in 1..Len(ItemToNewTable)
       THEN IF damage + 1 \in 1..Len(ItemToNewTable[id + 1])
            THEN ItemToNewTable[id + 1][damage + 1]
            ELSE 0
  ELSE 0

(* TypeConverter::item_to_old: the old id and the damage value *)
item_to_old(id, ver) ==
  IF ver = LatestBlockVersion THEN <<id, 0>>
  ELSE IF id + 1 \in 1..Len(ItemToOldTable) THEN ItemToOldTable[id + 1]
  ELSE <<0, 0>>

(* TypeConverter::entity_to_new *)
entity_to_new(id, ver) ==
  IF id = 0 THEN 0
  ELSE IF ver = LatestBlockVersion THEN id
  ELSE IF id + 1 \in 1..Len(EntityToNewTable) THEN EntityToNewTable[id + 1]
  ELSE 0

(* TypeConverter::entity_to_old *)
entity_to_old(id, ver) ==
  IF ver = LatestBlockVersion THEN id
  ELSE IF id + 1 \in 1..Len(EntityToOldTable) THEN EntityToOldTable[id + 1]
  ELSE 0

(* A call of one of the six converters; the result is kept as a sequence,
   <<id>> or <<id, damage>>. *)
MaxConvId == 4
MaxDamage == 2
ConvFns == {"block_to_new", "block_to_old", "item_to_new", "item_to_old",
            "entity_to_new", "entity_to_old"}
ConvResult(fn, id, damage, ver) ==
  CASE fn = "block_to_new" -> <<block_to_new(id, ver)>>
    [] fn = "block_to_old" -> <<block_to_old(id, ver)>>
    [] fn = "item_to_new" -> <<item_to_new(id, damage, ver)>>
    [] fn = "item_to_old" -> item_to_old(id, ver)
    [] fn = "entity_to_new" -> <<entity_to_new(id, ver)>>
    [] OTHER -> <<entity_to_old(id, ver)>>
Convert(fn, id, damage, ver) ==
  conv' = [fn |-> fn, id |-> id, damage |-> damage, ver |-> ver,
           out |-> ConvResult(fn, id, damage, ver)]

(* in_view with the border of the view excluded *)
Player_in_view_strict(p, cpos) ==
  LET mine == FPos_chunk(p.curr)
  IN  /\ Abs(cpos[1] - mine[1]) < ViewDistance
      /\ Abs(cpos[2] - mine[2]) < ViewDistance

(* Player::in_view *)
Player_in_view(p, cpos) ==
  LET mine == FPos_chunk(p.curr)
  IN  /\ Abs(cpos[1] - mine[1]) <= ViewDistance
      /\ Abs(cpos[2] - mine[2]) <= ViewDistance

(* PlayersIter::in_view: the player objects of the map that see cpos. *)
PlayersInView(pm, objs, cpos) ==
  {c \in {pm[u] : u \in DOMAIN pm} : Player_in_view(objs[c], cpos)}

Send(ob, c, pkts) == [ob EXCEPT ![c] = @ \o pkts]

----------------------------------------------------------------------------
(* World::set_block, World::set_kind, World::fill *)

BlockChange(pos, id) == [t |-> "BlockChange", location |-> pos, type_ |-> id]

(* The BlockChange fan-out of set_block: one packet per player in view. *)
FanOutBlockChange(ob, pm, objs, pos, ty) ==
  LET to == PlayersInView(pm, objs, Pos_chunk(pos))
  IN  [c \in DOMAIN ob |->
        IF c \in to
        THEN Append(ob[c], BlockChange(pos, block_to_old(ty, objs[c].ver)))
        ELSE ob[c]]

(* set_block that notifies the players before it looks at the result *)
World_set_block_send_first(ch, ins, ob, pm, objs, pos, ty) ==
  LET cp == Pos_chunk(pos)
      ch1 == World_chunk_ensure(ch, cp)
      ins1 == CountInsert(ins, ch, cp)
      r == MultiChunk_set_type(ch1[cp], Pos_chunk_rel(pos), ty)
      sent == FanOutBlockChange(ob, pm, objs, pos, ty)
  IN  IF ~r.ok
      THEN [ok |-> FALSE, chunks |-> ch1, inserted |-> ins1, outbox |-> sent]
      ELSE [ok |-> TRUE, chunks |-> [ch1 EXCEPT ![cp] = r.cells], inserted |-> ins1,
            outbox |-> sent]

(* The result of set_block: the `?` returns before any packet is sent. *)
World_set_block(ch, ins, ob, pm, objs, pos, ty) ==
  LET cp == Pos_chunk(pos)
      ch1 == World_chunk_ensure(ch, cp)
      ins1 == CountInsert(ins, ch, cp)
      r == MultiChunk_set_type(ch1[cp], Pos_chunk_rel(pos), ty)
  IN  IF ~r.ok
      THEN [ok |-> FALSE, chunks |-> ch1, inserted |-> ins1, outbox |-> ob]
      ELSE [ok |-> TRUE, chunks |-> [ch1 EXCEPT ![cp] = r.cells], inserted |-> ins1,
            outbox |-> FanOutBlockChange(ob, pm, objs, pos, ty)]

(* set_kind: the default type of Kind::Air is block id 0. *)
AirType == 0
World_set_kind(ch, ins, ob, pm, objs, pos, ty) ==
  World_set_block(ch, ins, ob, pm, objs, pos, ty)

(* Rectangle min..=max of chunk positions, x outer and z inner. *)
RectSeqIncl(lo, hi) ==
  LET w == hi[1] - lo[1] + 1
      h == hi[2] - lo[2] + 1
  IN  IF w <= 0 \/ h <= 0 THEN <<>>
      ELSE [i \in 1..(w * h) |-> <<lo[1] + ((i - 1) \div h), lo[2] + ((i - 1) % h)>>]

(* The per-chunk corners fill computes for chunk cp of the box min..max. *)
FillLo(cp, min, max) ==
  <<IF Pos_chunk(min)[1] = cp[1] THEN Pos_chunk_rel(min)[1] ELSE 0,
    PosY(min),
    IF Pos_chunk(min)[2] = cp[2] THEN Pos_chunk_rel(min)[3] ELSE 0>>
(* the upper corner without the default of 15 for chunks before the last *)
FillHi_no_default(cp, min, max) ==
  <<Pos_chunk_rel(max)[1], PosY(max), Pos_chunk_rel(max)[3]>>
FillHi(cp, min, max) ==
  <<IF Pos_chunk(max)[1] = cp[1] THEN Pos_chunk_rel(max)[1] ELSE ChunkMaxRel,
    PosY(max),
    IF Pos_chunk(max)[2] = cp[2] THEN Pos_chunk_rel(max)[3] ELSE ChunkMaxRel>>

(* The first loop of fill: chunk by chunk, stopping at the first PosError. *)
RECURSIVE FillLoop(_, _, _, _, _, _, _)
FillLoop(ch, ins, cps, i, min, max, ty) ==
  IF i > Len(cps) THEN [ok |-> TRUE, chunks |-> ch, inserted |-> ins]
  ELSE LET cp == cps[i]
           ch1 == World_chunk_ensure(ch, cp)
           ins1 == CountInsert(ins, ch, cp)
           r == MultiChunk_fill(ch1[cp], FillLo(cp, min, max), FillHi(cp, min, max), ty)
       IN  IF ~r.ok THEN [ok |-> FALSE, chunks |-> ch1, inserted |-> ins1]
           ELSE FillLoop([ch1 EXCEPT ![cp] = r.cells], ins1, cps, i + 1, min, max, ty)

(* The MultiBlockChange fill sends for chunk cp: its record lists are empty. *)
MultiBlockChange(cp, ver) ==
  IF VerOrd(ver) >= VerOrd("V1_16_2")
  THEN [t |-> "MultiBlockChange", chunk |-> <<>>, coords |-> <<>>, records |-> <<>>]
  ELSE [t |-> "MultiBlockChange", chunk |-> cp, coords |-> <<>>, records |-> <<>>]

(* The second loop of fill: per chunk, one packet to each player in view. *)
RECURSIVE FillFanOut(_, _, _, _, _)
FillFanOut(ob, pm, objs, cps, i) ==
  IF i > Len(cps) THEN ob
  ELSE LET to == PlayersInView(pm, objs, cps[i])
           ob1 == [c \in DOMAIN ob |->
                     IF c \in to THEN Append(ob[c], MultiBlockChange(cps[i], objs[c].ver))
                     ELSE ob[c]]
       IN  FillFanOut(ob1, pm, objs, cps, i + 1)

World_fill(ch, ins, ob, pm, objs, min, max, ty) ==
  IF min = max THEN World_set_block(ch, ins, ob, pm, objs, min, ty)
  ELSE LET cps == RectSeqIncl(Pos_chunk(min), Pos_chunk(max))
           r == FillLoop(ch, ins, cps, 1, min, max, ty)
       IN  IF ~r.ok
           THEN [ok |-> FALSE, chunks |-> r.chunks, inserted |-> r.inserted, outbox |-> ob]
           ELSE [ok |-> TRUE, chunks |-> r.chunks, inserted |-> r.inserted,
                 outbox |-> FillFanOut(ob, pm, objs, cps, 1)]

(* Connection::run on BlockDig: the set_kind future is built and dropped
   without being awaited, so none of its effects take place. *)
Connection_run_BlockDig(ch, ins, ob, pm, objs, pos) ==
  LET fut == World_set_kind(ch, ins, ob, pm, objs, pos, AirType)
  IN  [ok |-> TRUE, chunks |-> ch, inserted |-> ins, outbox |-> ob]

----------------------------------------------------------------------------
(* Players joining *)

(* AtomicI32::fetch_add wraps around on overflow. *)
I32Max == 2147483647
WrappingInc(n) == IF n = I32Max THEN 0 - I32Max - 1 ELSE n + 1

(* a counter that is read but not advanced *)
World_eid_no_add(counter) == [val |-> counter, next |-> counter]

(* World::eid: fetch_add returns the old value and stores old + 1. *)
World_eid(counter) == [val |-> counter, next |-> WrappingInc(counter)]

Player_new(id, uuid, ver, pos) ==
  [eid |-> id, uuid |-> uuid, ver |-> ver,
   curr |-> pos, prev |-> pos, next |-> pos,
   yaw |-> 0, pitch |-> 0, next_yaw |-> 0, next_pitch |-> 0]

KickDisconnect(msg) == [t |-> "KickDisconnect", reason |-> msg]

(* new_player that evicts the player already in the map *)
World_new_player_evict(pm, ob, tk, c, u) ==
  IF u \in DOMAIN pm
  THEN [players |-> MapInsert(pm, u, c),
        outbox |-> Send(ob, pm[u], <<KickDisconnect(KickMsg)>>),
        tasks |-> tk \cup {c}]
  ELSE [players |-> MapInsert(pm, u, c), outbox |-> ob, tasks |-> tk \cup {c}]

(* World::new_player for the player object c with uuid u. *)
World_new_player(pm, ob, tk, c, u) ==
  IF u \in DOMAIN pm
  THEN [players |-> pm, outbox |-> Send(ob, c, <<KickDisconnect(KickMsg)>>), tasks |-> tk]
  ELSE [players |-> MapInsert(pm, u, c), outbox |-> ob, tasks |-> tk \cup {c}]

NoPos == <<0, 0, 0>>

(* What an operation appended to each connection's queue. *)
NewlySent(before, after) ==
  [c \in Conns |-> SubSeq(after[c], Len(before[c]) + 1, Len(after[c]))]
Op(kind, ok, c, a, b, ty) == [kind |-> kind, ok |-> ok, c |-> c, a |-> a, b |-> b, ty |-> ty]

----------------------------------------------------------------------------
(* World::chunk and World::pre_generate_chunk, statement by statement, for
   threads that call World::chunk concurrently. *)

RacePos == {<<0, 0>>, <<1, 0>>}
NoChunkId == <<<<0, 0>>, 0>>

(* RwLock::read succeeds when no writer holds the lock; a lock that prefers
   writers also refuses readers while a writer waits. *)
CanRead(holder) == holder = 0
CanWrite(readers, holder) == readers = {} /\ holder = 0
ChunkWriterWaits == \E t \in Threads : thr[t].pc = "wlock"
GenWriterWaits == \E t \in Threads : thr[t].pc = "g_wlock"

(* an insert without the second look at the map *)
EntryAlwaysVacant(m, k) == TRUE

(* HashMap::entry(pos).or_insert_with: the closure runs only for a vacant entry. *)
EntryVacant(m, k) == k \notin DOMAIN m

SetPc(t, pc) == [thr EXCEPT ![t].pc = pc]

(* A thread enters World::chunk(pos, f). *)
ChunkCall(t, pos) ==
  /\ thr[t].pc = "idle"
  /\ thr' = [thr EXCEPT ![t].pc = "check", ![t].pos = pos]
  /\ UNCHANGED <<rmap, rins, locks, mtx, gens>>

(* if !self.chunks.read().unwrap().contains_key(&pos) *)
ChunkCheck(t) ==
  /\ thr[t].pc = "check"
  /\ CanRead(locks.cw)
  /\ thr' = SetPc(t, IF thr[t].pos \in DOMAIN rmap THEN "rlock" ELSE "wlock")
  /\ UNCHANGED <<rmap, rins, locks, mtx, gens>>

(* let mut chunks = self.chunks.write().unwrap(); *)
ChunkWLock(t) ==
  /\ thr[t].pc = "wlock"
  /\ CanWrite(locks.cr, locks.cw)
  /\ locks' = [locks EXCEPT !.cw = t]
  /\ thr' = SetPc(t, "entry")
  /\ UNCHANGED <<rmap, rins, mtx, gens>>

(* chunks.entry(pos): an occupied entry ends the block and drops the write guard. *)
ChunkEntry(t) ==
  /\ thr[t].pc = "entry"
  /\ IF EntryVacant(rmap, thr[t].pos)
     THEN thr' = SetPc(t, "g_check") /\ UNCHANGED locks
     ELSE thr' = SetPc(t, "rlock") /\ locks' = [locks EXCEPT !.cw = 0]
  /\ UNCHANGED <<rmap, rins, mtx, gens>>

(* pre_generate_chunk: if !self.generators.read().unwrap().contains_key(&tid) *)
GenCheck(t) ==
  /\ thr[t].pc = "g_check"
  /\ CanRead(locks.gw)
  /\ thr' = SetPc(t, IF t \in gens THEN "g_rlock" ELSE "g_wlock")
  /\ UNCHANGED <<rmap, rins, locks, mtx, gens>>

(* generators.write(), entry(tid).or_insert_with(..), guard dropped *)
GenWLock(t) ==
  /\ thr[t].pc = "g_wlock"
  /\ CanWrite(locks.gr, locks.gw)
  /\ gens' = gens \cup {t}
  /\ thr' = SetPc(t, "g_rlock")
  /\ UNCHANGED <<rmap, rins, locks, mtx>>

(* let generators = self.generators.read().unwrap(); *)
GenRLock(t) ==
  /\ thr[t].pc = "g_rlock"
  /\ CanRead(locks.gw)
  /\ locks' = [locks EXCEPT !.gr = @ \cup {t}]
  /\ thr' = SetPc(t, "g_mutex")
  /\ UNCHANGED <<rmap, rins, mtx, gens>>

(* generators[&tid].lock(), generate, return: the thread's own generator is free. *)
GenGenerate(t) ==
  /\ thr[t].pc = "g_mutex"
  /\ t \in gens
  /\ locks' = [locks EXCEPT !.gr = @ \ {t}]
  /\ thr' = SetPc(t, "insert")
  /\ UNCHANGED <<rmap, rins, mtx, gens>>

(* The generated chunk is inserted under pos and the write guard is dropped. *)
ChunkInsert(t) ==
  /\ thr[t].pc = "insert"
  /\ rmap' = MapInsert(rmap, thr[t].pos, <<thr[t].pos, rins[thr[t].pos] + 1>>)
  /\ rins' = [rins EXCEPT ![thr[t].pos] = @ + 1]
  /\ locks' = [locks EXCEPT !.cw = 0]
  /\ thr' = SetPc(t, "rlock")
  /\ UNCHANGED <<mtx, gens>>

(* let chunks = self.chunks.read().unwrap(); *)
ChunkRLock(t) ==
  /\ thr[t].pc = "rlock"
  /\ CanRead(locks.cw)
  /\ locks' = [locks EXCEPT !.cr = @ \cup {t}]
  /\ thr' = SetPc(t, "mlock")
  /\ UNCHANGED <<rmap, rins, mtx, gens>>

(* let c = chunks[&pos].lock().unwrap(); *)
ChunkMLock(t) ==
  /\ thr[t].pc = "mlock"
  /\ rmap[thr[t].pos] \notin DOMAIN mtx
  /\ mtx' = MapInsert(mtx, rmap[thr[t].pos], t)
  /\ thr' = [thr EXCEPT ![t].pc = "in_f", ![t].ran = rmap[thr[t].pos]]
  /\ UNCHANGED <<rmap, rins, locks, gens>>

(* f(c) runs and returns: the chunk guard and the read guard are dropped. *)
ChunkRunF(t) ==
  /\ thr[t].pc = "in_f"
  /\ mtx' = [k \in (DOMAIN mtx) \ {thr[t].ran} |-> mtx[k]]
  /\ locks' = [locks EXCEPT !.cr = @ \ {t}]
  /\ thr' = SetPc(t, "done")
  /\ UNCHANGED <<rmap, rins, gens>>

----------------------------------------------------------------------------
(* World::eid called from several threads *)

EidInvoke(t) ==
  /\ ethr[t].pc = "idle"
  /\ ethr' = [ethr EXCEPT ![t].pc = "invoked"]
  /\ elog' = Append(elog, [e |-> "inv", t |-> t, v |-> 0])
  /\ UNCHANGED eid

(* self.eid.fetch_add(1, Ordering::SeqCst): one atomic step. *)
EidFetchAdd(t) ==
  /\ ethr[t].pc = "invoked"
  /\ ethr' = [ethr EXCEPT ![t].pc = "fetched", ![t].val = World_eid(eid).val]
  /\ eid' = World_eid(eid).next
  /\ UNCHANGED elog

EidReturn(t) ==
  /\ ethr[t].pc = "fetched"
  /\ ethr' = [ethr EXCEPT ![t].pc = "idle"]
  /\ elog' = Append(elog, [e |-> "ret", t |-> t, v |-> ethr[t].val])
  /\ UNCHANGED eid

EidInvocations == Cardinality({i \in 1..Len(elog) : elog[i].e = "inv"})

----------------------------------------------------------------------------
(* The tasks of World::new_player, World::player_loop and
   World::global_tick_loop, one step per suspension point.  Every connection
   of this part has a uuid of its own and every player is in view of every
   other one. *)

NoTask == <<"none", 0>>
TickTask(c) == <<"tick", c>>
GlobalTask == <<"global", 0>>

(* HashMap::values and the in_view iterator visit the players in some order. *)
Orders(S) == {o \in [1..Cardinality(S) -> S] : \A i, j \in 1..Cardinality(S) : o[i] = o[j] => i = j}

(* Sender::send completes when the queue has room, or at once with an error
   when the receiver was dropped; otherwise the caller stays suspended. *)
CanSend(r) == cst[r].dropped \/ cst[r].q < ChanCap
(* log is a history: the first MaxLog packets handed to the queue. *)
Enqueue(r, k) ==
  [cst EXCEPT ![r].q = @ + 1, ![r].log = IF Len(@) < MaxLog THEN Append(@, k) ELSE @]

(* World::new_player for a uuid that is not in the map: the insert under the
   mutex, then the two tokio::spawn calls. *)
JoinInsert(c) ==
  /\ ptask[c].ticker = "none"
  /\ c \notin pmap
  /\ pmtx = NoTask
  /\ pmap' = pmap \cup {c}
  /\ ptask' = [ptask EXCEPT ![c].reader = "run", ![c].ticker = "init_login"]
  /\ UNCHANGED <<pmtx, cst, gtask>>

(* Streams ended and receivers dropped so far. *)
ProxyEvents ==
  Cardinality({c \in Conns : cst[c].rx # "open"}) + Cardinality({c \in Conns : cst[c].dropped})

(* The proxy side of the connection: the inbound stream finishes or fails,
   the receiver of the outbound queue is dropped, a queued packet is taken. *)
StreamEnd(c, how) ==
  /\ ptask[c].reader = "run"
  /\ cst[c].rx = "open"
  /\ ProxyEvents < MaxProxyEvents
  /\ cst' = [cst EXCEPT ![c].rx = how]
  /\ UNCHANGED <<pmap, pmtx, ptask, gtask>>

QueueDrop(c) ==
  /\ ptask[c].ticker # "none"
  /\ ~cst[c].dropped
  /\ ProxyEvents < MaxProxyEvents
  /\ cst' = [cst EXCEPT ![c].dropped = TRUE]
  /\ UNCHANGED <<pmap, pmtx, ptask, gtask>>

Drain(c) ==
  /\ ~cst[c].dropped
  /\ cst[c].q > 0
  /\ cst' = [cst EXCEPT ![c].q = @ - 1]
  /\ UNCHANGED <<pmap, pmtx, ptask, gtask>>

(* Connection::run at the end of the stream, and the unwrap of its result
   in the task spawned by new_player: message().await? returns the error
   before closed is stored. *)
Connection_run(c) ==
  /\ ptask[c].reader = "run"
  /\ cst[c].rx # "open"
  /\ IF cst[c].rx = "eof"
       THEN /\ cst' = [cst EXCEPT ![c].closed = TRUE]
            /\ ptask' = [ptask EXCEPT ![c].reader = "done"]
       ELSE /\ ptask' = [ptask EXCEPT ![c].reader = "panic"]
            /\ UNCHANGED cst
  /\ UNCHANGED <<pmap, pmtx, gtask>>

InitKind(pc) ==
  IF pc = "init_login" THEN "Login" ELSE IF pc = "init_chunks" THEN "MapChunk" ELSE "Position"
InitNext(pc) ==
  IF pc = "init_login" THEN "init_chunks" ELSE IF pc = "init_chunks" THEN "init_pos" ELSE "loop"

(* World::player_init: Login, the MapChunk ring (one entry stands for the
   ring), Position, each through Connection::send. *)
PlayerInit(c) ==
  /\ ptask[c].ticker \in {"init_login", "init_chunks", "init_pos"}
  /\ CanSend(c)
  /\ IF cst[c].dropped
       THEN /\ ptask' = [ptask EXCEPT ![c].ticker = "panic"]
            /\ UNCHANGED cst
       ELSE /\ cst' = Enqueue(c, InitKind(ptask[c].ticker))
            /\ ptask' = [ptask EXCEPT ![c].ticker = InitNext(@)]
  /\ UNCHANGED <<pmap, pmtx, gtask>>

(* player_loop after int.tick(): the closed check, then Player::tick up to
   the point where it asks for the player map. *)
LoopHead(c) ==
  /\ ptask[c].ticker = "loop"
  /\ IF cst[c].closed
       THEN ptask' = [ptask EXCEPT ![c].ticker = "remove"]
       ELSE /\ ptask[c].tick < MaxLoopTicks
            /\ \E moved \in BOOLEAN :
                 ptask' = [ptask EXCEPT ![c].ticker = IF moved THEN "fan_lock" ELSE "keepalive"]
  /\ UNCHANGED <<pmap, pmtx, cst, gtask>>

(* Player::tick: self.world.players().await; the guard lives as long as the
   for loop over the other players. *)
FanLock(c) ==
  /\ ptask[c].ticker = "fan_lock"
  /\ pmtx = NoTask
  /\ pmtx' = TickTask(c)
  /\ \E o \in Orders(pmap \ {c}) :
       ptask' = [ptask EXCEPT ![c].ticker = "fan_send", ![c].left = o]
  /\ UNCHANGED <<pmap, cst, gtask>>

(* One other.conn().send(..).await of that loop, or its end. *)
FanSend(c) ==
  /\ ptask[c].ticker = "fan_send"
  /\ IF ptask[c].left = <<>>
       THEN /\ pmtx' = NoTask
            /\ ptask' = [ptask EXCEPT ![c].ticker = "keepalive"]
            /\ UNCHANGED cst
       ELSE LET r == Head(ptask[c].left) IN
            /\ CanSend(r)
            /\ IF cst[r].dropped
                 THEN /\ pmtx' = NoTask
                      /\ ptask' = [ptask EXCEPT ![c].ticker = "panic"]
                      /\ UNCHANGED cst
                 ELSE /\ cst' = Enqueue(r, "EntityTeleport")
                      /\ ptask' = [ptask EXCEPT ![c].left = Tail(@)]
                      /\ UNCHANGED pmtx
  /\ UNCHANGED <<pmap, gtask>>

(* player_loop: the KeepAlive of every 20th tick, tick += 1. *)
KeepAlive(c) ==
  /\ ptask[c].ticker = "keepalive"
  /\ IF ptask[c].tick % KeepAlivePeriod = 0
       THEN /\ CanSend(c)
            /\ IF cst[c].dropped
                 THEN /\ ptask' = [ptask EXCEPT ![c].ticker = "panic"]
                      /\ UNCHANGED cst
                 ELSE /\ cst' = Enqueue(c, "KeepAlive")
                      /\ ptask' = [ptask EXCEPT ![c].ticker = "loop", ![c].tick = @ + 1]
       ELSE /\ ptask' = [ptask EXCEPT ![c].ticker = "loop", ![c].tick = @ + 1]
            /\ UNCHANGED cst
  /\ UNCHANGED <<pmap, pmtx, gtask>>

(* The tick task of new_player after player_loop returned:
   self.players.lock().await.remove(&id). *)
RemovePlayer(c) ==
  /\ ptask[c].ticker = "remove"
  /\ pmtx = NoTask
  /\ pmap' = pmap \ {c}
  /\ ptask' = [ptask EXCEPT ![c].ticker = "exit"]
  /\ UNCHANGED <<pmtx, cst, gtask>>

(* global_tick_loop after int.tick(). *)
GlobalTick ==
  /\ gtask.pc = "wait"
  /\ gtask.tick < MaxGlobalTicks
  /\ gtask' = IF gtask.tick % HeaderPeriod = 0
                THEN [gtask EXCEPT !.pc = "lock"]
                ELSE [gtask EXCEPT !.tick = @ + 1]
  /\ UNCHANGED <<pmap, pmtx, cst, ptask>>

(* for p in self.players.lock().await.values(): the guard lives as long as
   the loop. *)
GlobalLock ==
  /\ gtask.pc = "lock"
  /\ pmtx = NoTask
  /\ pmtx' = GlobalTask
  /\ \E o \in Orders(pmap) : gtask' = [gtask EXCEPT !.pc = "send", !.left = o]
  /\ UNCHANGED <<pmap, cst, ptask>>

(* One p.conn().send(out.clone()).await of that loop, or its end. *)
GlobalSend ==
  /\ gtask.pc = "send"
  /\ IF gtask.left = <<>>
       THEN /\ pmtx' = NoTask
            /\ gtask' = [gtask EXCEPT !.pc = "wait", !.tick = @ + 1]
            /\ UNCHANGED cst
       ELSE LET r == Head(gtask.left) IN
            /\ CanSend(r)
            /\ IF cst[r].dropped
                 THEN /\ pmtx' = NoTask
                      /\ gtask' = [gtask EXCEPT !.pc = "panic"]
                      /\ UNCHANGED cst
                 ELSE /\ cst' = Enqueue(r, "PlayerlistHeader")
                      /\ gtask' = [gtask EXCEPT !.left = Tail(@)]
                      /\ UNCHANGED pmtx
  /\ UNCHANGED <<pmap, ptask>>

----------------------------------------------------------------------------
(* JavaStreamReader: bytes of length-prefixed frames arrive in pieces *)

ContinueBit == 2 ^ 7
VarintMaxLen == 5

(* write_varint for the frame lengths the client sends (below 2^14). *)
VarintOf(n) == IF n < ContinueBit THEN <<n>> ELSE <<ContinueBit + (n % ContinueBit), n \div ContinueBit>>

(* util::read_varint: 7-bit groups, low group first; consumed is 0 when the
   bytes end inside the varint and -1 after five bytes with the bit set. *)
RECURSIVE ReadVarintFrom(_, _, _)
ReadVarintFrom(a, i, acc) ==
  IF i > VarintMaxLen THEN [val |-> 0, read |-> 0 - 1]
  ELSE IF i > Len(a) THEN [val |-> 0, read |-> 0]
  ELSE LET v == acc + (a[i] % ContinueBit) * ContinueBit ^ (i - 1) IN
       IF a[i] < ContinueBit THEN [val |-> v, read |-> i] ELSE ReadVarintFrom(a, i + 1, v)
read_varint(a) == ReadVarintFrom(a, 1, 0)

Zeros(n) == [i \in 1..n |-> 0]

(* cons.pop_slice(&mut vec) on a vec![0; len]: as many bytes as are buffered
   are copied, the rest of vec stays 0. *)
PopInto(buf, len) ==
  LET k == Min2(len, Len(buf)) IN
  [vec |-> SubSeq(buf, 1, k) \o Zeros(len - k), rest |-> SubSeq(buf, k + 1, Len(buf))]

(* JavaStreamReader::read with compression off.  The packet is kept as the
   bytes given to Packet::from_buf. *)
StreamReader_read(cons) ==
  LET vi == read_varint(cons)
      len == vi.val
      read == vi.read
  IN IF read < 0 THEN [res |-> "err", cons |-> cons, vec |-> <<>>]
     ELSE IF read = 0 \/ len > Len(cons) THEN [res |-> "none", cons |-> cons, vec |-> <<>>]
     ELSE LET popped == PopInto(SubSeq(cons, read + 1, Len(cons)), len) IN
          [res |-> "packet", cons |-> popped.rest, vec |-> popped.vec]

ByteMod == 2 ^ 8
SumBytes(b) == LET F[i \in 0..Len(b)] == IF i = 0 THEN 0 ELSE (F[i - 1] + b[i]) % ByteMod IN F[Len(b)]

(* compress_to_vec_zlib / decompress_to_vec_zlib, as a stored block: the
   zlib header byte, the data, a checksum of the data.  Inflating anything
   else is an error. *)
ZlibHeader == 120
Deflate(b) == <<ZlibHeader>> \o b \o <<SumBytes(b)>>
Inflate(z) ==
  IF Len(z) >= 2 /\ z[1] = ZlibHeader /\ z[Len(z)] = SumBytes(SubSeq(z, 2, Len(z) - 1))
    THEN [ok |-> TRUE, data |-> SubSeq(z, 2, Len(z) - 1)]
    ELSE [ok |-> FALSE, data |-> <<>>]

(* Cfb8<Aes128>: every byte is combined with a key stream byte that depends
   on the cipher text before it.  The shift register is held as its last
   byte, the block cipher as KeyStream. *)
NoCipher == 0 - 1
CipherIV == 5
KeyStream(st) == (st * 5 + 3) % ByteMod
Cfb8_encrypt(data, st) ==
  LET F[i \in 0..Len(data)] ==
        IF i = 0 THEN [out |-> <<>>, st |-> st]
        ELSE LET c == (data[i] + KeyStream(F[i - 1].st)) % ByteMod IN
             [out |-> Append(F[i - 1].out, c), st |-> c]
  IN F[Len(data)]
Cfb8_decrypt(data, st) ==
  LET F[i \in 0..Len(data)] ==
        IF i = 0 THEN [out |-> <<>>, st |-> st]
        ELSE [out |-> Append(F[i - 1].out, (data[i] + ByteMod - KeyStream(F[i - 1].st)) % ByteMod),
              st |-> data[i]]
  IN F[Len(data)]

(* JavaStreamWriter::write without the cipher: the bytes handed to
   write_data, in order. *)
JavaStreamWriter_write(bytes, compression) ==
  IF compression # 0
    THEN IF Len(bytes) > compression
           THEN LET compressed == Deflate(bytes)
                    ul == VarintOf(Len(bytes))
                IN VarintOf(Len(ul) + Len(compressed)) \o ul \o compressed
           ELSE VarintOf(Len(bytes) + 1) \o VarintOf(0) \o bytes
    ELSE VarintOf(Len(bytes)) \o bytes

(* JavaStreamReader::read: the frame as StreamReader_read takes it, then the
   uncompressed-length varint and the inflate when compression is on.  u is
   the uncompressed length the frame announced. *)
JavaStreamReader_read(cons, compression) ==
  LET r == StreamReader_read(cons) IN
  IF r.res # "packet" \/ compression = 0 THEN [res |-> r.res, cons |-> r.cons, vec |-> r.vec, u |-> 0]
  ELSE LET ul == read_varint(r.vec)
           rest == SubSeq(r.vec, Max2(ul.read, 0) + 1, Len(r.vec))
       IN IF ul.val = 0 THEN [res |-> "packet", cons |-> r.cons, vec |-> rest, u |-> 0]
          ELSE IF Inflate(rest).ok
            THEN [res |-> "packet", cons |-> r.cons, vec |-> Inflate(rest).data, u |-> ul.val]
            ELSE [res |-> "err", cons |-> r.cons, vec |-> <<>>, u |-> ul.val]

JsrPayloads == {<<7>>, <<7, 9>>, <<9, 7, 9>>, [i \in 1..ContinueBit |-> 255]}
PollSizes == {1, 2, 3, 64, 2 * ContinueBit}

(* What write_data puts on the wire for the bytes b, and the cipher after. *)
WriteData(b) ==
  IF jsr.wcipher = NoCipher THEN [out |-> b, st |-> NoCipher] ELSE Cfb8_encrypt(b, jsr.wcipher)

(* The peer writes the packet f with JavaStreamWriter::write.  plain is a
   history: the bytes written before encryption. *)
ClientWrite(f) ==
  /\ Len(jsr.frames) + jsr.bad < MaxFrames
  /\ LET b == JavaStreamWriter_write(f, jsr.compression) IN
     jsr' = [jsr EXCEPT !.wire = @ \o WriteData(b).out, !.wcipher = WriteData(b).st,
                        !.plain = @ \o b, !.frames = Append(@, f), !.last = "write"]

(* The peer writes a compressed frame that announces one byte more than the
   data inflates to. *)
PeerWriteWrongLength(f) ==
  /\ Len(jsr.frames) + jsr.bad < MaxFrames
  /\ jsr.compression # 0
  /\ LET ul == VarintOf(Len(f) + 1)
         b == VarintOf(Len(ul) + Len(Deflate(f))) \o ul \o Deflate(f)
     IN jsr' = [jsr EXCEPT !.wire = @ \o WriteData(b).out, !.wcipher = WriteData(b).st,
                           !.plain = @ \o b, !.bad = @ + 1, !.last = "write"]

(* set_compression and enable_encryption on the writer and on the reader
   before any byte is written. *)
Configure(t, enc) ==
  /\ ~jsr.conf
  /\ jsr.plain = <<>>
  /\ jsr' = [jsr EXCEPT !.conf = TRUE, !.compression = t,
                        !.wcipher = IF enc THEN CipherIV ELSE NoCipher,
                        !.rcipher = IF enc THEN CipherIV ELSE NoCipher,
                        !.encAt = IF enc THEN 0 ELSE @]

(* JavaStreamWriter::enable_encryption on the peer after it wrote the packet
   that triggers encryption; encAt is a history: the frames before it. *)
WriterEnableEncryption ==
  /\ jsr.wcipher = NoCipher
  /\ jsr.frames # <<>>
  /\ jsr' = [jsr EXCEPT !.wcipher = CipherIV, !.encAt = Len(jsr.frames), !.last = "enable"]

(* JavaStreamReader::enable_encryption, called when the read that returned
   the triggering packet is handled. *)
ReaderEnableEncryption ==
  /\ jsr.rcipher = NoCipher
  /\ jsr.encAt >= 1
  /\ jsr.last = "packet"
  /\ Len(jsr.out) = jsr.encAt
  /\ jsr' = [jsr EXCEPT !.rcipher = CipherIV, !.last = "enabled"]

(* JavaStreamReader::poll: read_buf gives the next n bytes, push_slice puts
   as many of them as fit into the ring buffer. *)
StreamReader_poll(n) ==
  /\ jsr.wire # <<>>
  /\ LET got == Min2(n, Len(jsr.wire))
         fit == Min2(got, RingCapacity - Len(jsr.cons))
         raw == SubSeq(jsr.wire, 1, got)
         msg == IF jsr.rcipher = NoCipher THEN [out |-> raw, st |-> NoCipher]
                ELSE Cfb8_decrypt(raw, jsr.rcipher)
     IN jsr' = [jsr EXCEPT !.wire = SubSeq(@, got + 1, Len(@)),
                           !.cons = @ \o SubSeq(msg.out, 1, fit),
                           !.pushed = @ \o SubSeq(msg.out, 1, fit),
                           !.rcipher = msg.st,
                           !.last = "poll"]

ReadPacket ==
  LET r == JavaStreamReader_read(jsr.cons, jsr.compression) IN
  jsr' = [jsr EXCEPT !.cons = r.cons,
                     !.out = IF r.res = "packet" THEN Append(@, r.vec) ELSE @,
                     !.u = r.u,
                     !.last = r.res]

----------------------------------------------------------------------------
(* Packet ids of a version *)

(* The generated ID enum (protocol store): None first, then the union of
   the packet names of all versions, sorted. *)
PacketNames == <<"chat", "keep_alive", "login", "map_chunk", "position">>
IdNone == 0
NoIndex == 0 - 1

(* ID::parse_str(name).to_i32(): the position of the name in the enum. *)
ID_parse_str(name) ==
  IF \E i \in 1..Len(PacketNames) : PacketNames[i] = name
  THEN CHOOSE i \in 1..Len(PacketNames) : PacketNames[i] = name
  ELSE IdNone

(* One turn of the loop of generate_ids: packet number id (from 0, its
   on-wire id) has the given name.  The vector ids is indexed from 0 in the
   code and from 1 here; NoIndex stands for None. *)
generate_ids_step_next(ids, id, name) ==
  LET new_id == ID_parse_str(name)
      grown == IF new_id >= Len(ids)
               THEN ids \o [i \in 1..(new_id + 1 - Len(ids)) |-> NoIndex]
               ELSE ids
  IN [grown EXCEPT ![new_id + 1] = id + 1]
generate_ids_step(ids, id, name) ==
  LET new_id == ID_parse_str(name)
      grown == IF new_id >= Len(ids)
               THEN ids \o [i \in 1..(new_id + 1 - Len(ids)) |-> NoIndex]
               ELSE ids
  IN [grown EXCEPT ![new_id + 1] = id]

generate_ids(packets) ==
  LET F[k \in 0..Len(packets)] ==
        IF k = 0 THEN <<>> ELSE generate_ids_step(F[k - 1], k - 1, packets[k])
  IN F[Len(packets)]

(* Canonical id -> on-wire id of the version: ids[c], None when out of range. *)
canonical_to_on_wire(ids, c) ==
  IF c >= 0 /\ c < Len(ids) THEN ids[c + 1] ELSE NoIndex
(* On-wire id -> canonical id: the enum value of the name of packets[i]. *)
on_wire_to_canonical(packets, i) ==
  IF i >= 0 /\ i < Len(packets) THEN ID_parse_str(packets[i + 1]) ELSE IdNone

(* The packet lists of a version: the protocol data names each packet of a
   direction once (a mapping from packet name to id), in on-wire order. *)
MaxPackets == 4
PacketLists ==
  {l \in UNION {[1..n -> {PacketNames[i] : i \in 1..Len(PacketNames)}] : n \in 0..MaxPackets} :
     \A i, j \in 1..Len(l) : l[i] = l[j] => i = j}

(* Generator::new, one version and direction: the PacketVersion built. *)
PacketVersion_new(list) ==
  pv' = [packets |-> list, ids |-> generate_ids(list), loaded |-> TRUE]

----------------------------------------------------------------------------
(* Light of a chunk *)

(* The cells of the chunk that are followed: a corridor along z, two cells
   high, at x = 3.  Every other cell of the chunk is stone and holds no
   light, so no light ever leaves the corridor. *)
LightWin == {<<3, y, z>> : y \in 63..64, z \in 0..ChunkMaxRel}
LightKinds == {"air", "stone", "torch"}
(* block_converter().get(kind): emit_light and transparent *)
EmitLight(kind) ==
  IF kind = "torch" THEN 14 ELSE 0
Transparent(kind) == kind \in {"air", "torch"}
(* BlockData::get_kind *)
BlockData_get_kind(kinds, pos) == IF pos \in LightWin THEN kinds[pos] ELSE "stone"
(* LightChunk::get_light and set_light *)
LightChunk_get_light(light, pos) == IF pos \in LightWin THEN light[pos] ELSE 0
LightChunk_set_light(light, pos, level) ==
  IF pos \in LightWin THEN [light EXCEPT ![pos] = level] ELSE light

Faces == <<"Top", "Bottom", "North", "South", "East", "West">>
FaceDelta(f) ==
  CASE f = "Top" -> <<0, 1, 0>>
    [] f = "Bottom" -> <<0, 0 - 1, 0>>
    [] f = "North" -> <<0, 0, 0 - 1>>
    [] f = "South" -> <<0, 0, 1>>
    [] f = "East" -> <<1, 0, 0>>
    [] OTHER -> <<0 - 1, 0, 0>>
(* RelPos::checked_add: None when x or z leaves the chunk. *)
RelPos_checked_add(pos, f) ==
  LET q == <<pos[1] + FaceDelta(f)[1], pos[2] + FaceDelta(f)[2], pos[3] + FaceDelta(f)[3]>>
  IN [some |-> q[1] \in 0..ChunkMaxRel /\ q[3] \in 0..ChunkMaxRel, pos |-> q]

(* The level BlockLightChunk::update gives to a neighbor and queues it with. *)
BlockSpread_same(emitted) == emitted
BlockSpread(emitted) == emitted - 1

(* BlockLightChunk::update: the six directions of one queue entry, from
   direction i on.  st = [light, other_queue]. *)
RECURSIVE BlockDirs(_, _, _, _, _)
BlockDirs(st, kinds, source, emitted, i) ==
  IF i > Len(Faces) THEN st
  ELSE
    LET a == RelPos_checked_add(source, Faces[i])
        new_pos == a.pos
        kind == BlockData_get_kind(kinds, new_pos)
        other_level == LightChunk_get_light(st.light, new_pos)
    IN IF ~a.some \/ new_pos[2] < 0 \/ new_pos[2] > WorldHeight - 1
       THEN BlockDirs(st, kinds, source, emitted, i + 1)
       ELSE IF (kind = "air" \/ Transparent(kind))
               /\ emitted >= 1 /\ other_level < emitted - 1
       THEN BlockDirs([light |-> LightChunk_set_light(st.light, new_pos, BlockSpread(emitted)),
                       other_queue |-> Append(st.other_queue, <<new_pos, BlockSpread(emitted)>>)],
                      kinds, source, emitted, i + 1)
       ELSE BlockDirs(st, kinds, source, emitted, i + 1)

(* One pass over the queue, entries j.. in order. *)
RECURSIVE BlockQueue(_, _, _, _, _)
BlockQueue(st, kinds, pos, queue, j) ==
  IF j > Len(queue) THEN st
  ELSE
    LET source == queue[j][1]
        emitted == queue[j][2]
        seeded == IF emitted > LightChunk_get_light(st.light, pos)
                  THEN LightChunk_set_light(st.light, pos, emitted)
                  ELSE st.light
    IN BlockQueue(BlockDirs([st EXCEPT !.light = seeded], kinds, source, emitted, 1),
                  kinds, pos, queue, j + 1)

RECURSIVE BlockWhile(_, _, _, _)
BlockWhile(light, kinds, pos, queue) ==
  IF queue = <<>> THEN light
  ELSE LET st == BlockQueue([light |-> light, other_queue |-> <<>>], kinds, pos, queue, 1)
       IN BlockWhile(st.light, kinds, pos, st.other_queue)

BlockLightChunk_update(light, kinds, pos) ==
  BlockWhile(light, kinds, pos, <<<<pos, EmitLight(BlockData_get_kind(kinds, pos))>>>>)

(* SkyLightChunk::update: the six directions of one queue entry. *)
RECURSIVE SkyDirs(_, _, _, _, _)
SkyDirs(st, kinds, source, level, i) ==
  IF i > Len(Faces) THEN st
  ELSE
    LET a == RelPos_checked_add(source, Faces[i])
        new_pos == a.pos
        kind == BlockData_get_kind(kinds, new_pos)
    IN IF ~a.some \/ new_pos[2] < 0 \/ new_pos[2] > WorldHeight - 1
       THEN SkyDirs(st, kinds, source, level, i + 1)
       ELSE IF Transparent(kind) /\ Faces[i] = "Bottom"
       THEN SkyDirs([st EXCEPT !.other_queue = Append(@, <<new_pos, level>>)],
                    kinds, source, level, i + 1)
       ELSE IF Transparent(kind) /\ LightChunk_get_light(st.light, new_pos) < level - 1
       THEN SkyDirs([light |-> LightChunk_set_light(st.light, new_pos, level - 1),
                     other_queue |-> Append(st.other_queue, <<new_pos, level>>)],
                    kinds, source, level, i + 1)
       ELSE SkyDirs(st, kinds, source, level, i + 1)

RECURSIVE SkyQueue(_, _, _, _)
SkyQueue(st, kinds, queue, j) ==
  IF j > Len(queue) THEN st
  ELSE IF queue[j][2] = 0 THEN SkyQueue(st, kinds, queue, j + 1)
  ELSE SkyQueue(SkyDirs(st, kinds, queue[j][1], queue[j][2], 1), kinds, queue, j + 1)

RECURSIVE SkyWhile(_, _, _)
SkyWhile(light, kinds, queue) ==
  IF queue = <<>> THEN light
  ELSE LET st == SkyQueue([light |-> light, other_queue |-> <<>>], kinds, queue, 1)
       IN SkyWhile(st.light, kinds, st.other_queue)

SkyLightChunk_update(light, kinds, pos) ==
  SkyWhile(light, kinds, <<<<pos, LightChunk_get_light(light, pos)>>>>)

(* The operations on the chunk: a block is placed, a sky light level is
   stored, and the two updates.  bdirty and sdirty hold the cells changed
   since the last block light or sky light update at them. *)
MaxKindOps == 3
MaxLightOps == 2
EditPos == {<<3, 64, 0>>, <<3, 64, 1>>, <<3, 63, 1>>}
SkySeeds == {<<3, 64, 0>>}
SkyLevels == {2, 15}
NoLight(light) == \A c \in LightWin : light[c] = 0

SetKind(pos, kind) ==
  /\ lit.kindOps < MaxKindOps
  /\ lit.kinds[pos] # kind
  /\ lit' = [lit EXCEPT !.kinds[pos] = kind,
                        !.bdirty = @ \cup {pos}, !.sdirty = @ \cup {pos},
                        !.kindOps = @ + 1,
                        !.last = [op |-> "set_kind", pos |-> pos, level |-> 0, clean |-> FALSE]]

SetSkyLight(pos, level) ==
  /\ lit.lightOps < MaxLightOps
  /\ lit' = [lit EXCEPT !.sky = LightChunk_set_light(@, pos, level),
                        !.sdirty = @ \cup {pos},
                        !.lightOps = @ + 1,
                        !.last = [op |-> "set_light", pos |-> pos, level |-> level, clean |-> FALSE]]

BlockLightUpdate(pos) ==
  /\ lit.lightOps < MaxLightOps
  /\ lit' = [lit EXCEPT !.block = BlockLightChunk_update(@, lit.kinds, pos),
                        !.bdirty = @ \ {pos},
                        !.lightOps = @ + 1,
                        !.last = [op |-> "block_update", pos |-> pos,
                                  level |-> EmitLight(lit.kinds[pos]),
                                  clean |-> NoLight(lit.block)]]

SkyLightUpdate(pos) ==
  /\ lit.lightOps < MaxLightOps
  /\ lit' = [lit EXCEPT !.sky = SkyLightChunk_update(@, lit.kinds, pos),
                        !.sdirty = @ \ {pos},
                        !.lightOps = @ + 1,
                        !.last = [op |-> "sky_update", pos |-> pos,
                                  level |-> lit.sky[pos],
                                  clean |-> NoLight([lit.sky EXCEPT ![pos] = 0])]]

----------------------------------------------------------------------------
(* Plugin callbacks *)

(* ON_BLOCK_PLACE: a mutex around an optional boxed handler. *)
NoHandler == "none"
Handlers == {"h1", "h2"}
(* The assignment of the setter: the slot's new content. *)
callback_set_keep_first(slot, h) == IF slot = NoHandler THEN h ELSE slot
callback_set(slot, h) == h

MaxPluginOps == 4
PlacePos == {<<0, 64, 0>>, <<0 - 1, 3, 7>>}

(* set_on_block_place(callback); regs is the history of the registrations. *)
set_on_block_place(h) ==
  /\ plug.ops < MaxPluginOps
  /\ plug' = [plug EXCEPT !.slot = callback_set(@, h),
                          !.regs = Append(@, h),
                          !.ops = @ + 1,
                          !.last = "set"]

(* on_block_place(id, x, y, z): the handler in the slot, if any, is called
   with Player::new(id) and CPos {x, y, z}, under the lock. *)
on_block_place(id, x, y, z) ==
  /\ plug.ops < MaxPluginOps
  /\ plug' = [plug EXCEPT !.calls = IF plug.slot # NoHandler
                                    THEN Append(@, [h |-> plug.slot, player |-> id, pos |-> <<x, y, z>>])
                                    ELSE @,
                          !.events = @ + 1,
                          !.ev = [id |-> id, pos |-> <<x, y, z>>],
                          !.ops = @ + 1,
                          !.last = "event"]

----------------------------------------------------------------------------
(* PlayerInventory *)

InventorySize == 46
HotbarStart == 36
EmptyStack == 0
(* Inventory::new(size): every slot empty. *)
Inventory_new(size) == [i \in 0..(size - 1) |-> EmptyStack]

MaxInvOps == 3
SelectedInputs == {0, 4, 8, 9, 255}
SlotInputs == {0, HotbarStart, HotbarStart + 8, InventorySize - 1}
StackInputs == {1, 2}

(* PlayerInventory::set_selected(index: u8) *)
set_selected(index) ==
  /\ pinv.ops < MaxInvOps
  /\ pinv' = [pinv EXCEPT !.selected_index = index, !.ops = @ + 1, !.last = "set_selected"]

(* PlayerInventory::set(index, stack) *)
PlayerInventory_set(index, stack) ==
  /\ pinv.ops < MaxInvOps
  /\ pinv' = [pinv EXCEPT !.inv[index] = stack, !.ops = @ + 1, !.last = "set"]

(* PlayerInventory::get(index): the slot read is recorded. *)
PlayerInventory_get(index) ==
  /\ pinv.ops < MaxInvOps
  /\ pinv' = [pinv EXCEPT !.read = index, !.ops = @ + 1, !.last = "get"]

(* PlayerInventory::main_hand: reads slot selected_index + 36. *)
main_hand ==
  /\ pinv.ops < MaxInvOps
  /\ pinv' = [pinv EXCEPT !.read = pinv.selected_index + HotbarStart,
                          !.ops = @ + 1, !.last = "main_hand"]

----------------------------------------------------------------------------
(* Chunk serialization per version *)

(* The protocol versions served and ProtocolVersion::block, the block
   version each one stores its chunks in. *)
SerVersions == {"V1_8", "V1_9", "V1_12_2", "V1_14", "V1_16", "V1_16_2", "V1_16_5"}
ProtocolVersion_block(ver) ==
  CASE ver = "V1_8" -> "V1_8"
    [] ver = "V1_9" -> "V1_9"
    [] ver = "V1_12_2" -> "V1_12"
    [] ver = "V1_14" -> "V1_14"
    [] OTHER -> "V1_16"

(* packet::chunk of the proxy: the arm of the match taken; todo!() aborts. *)
packet_chunk(pos, full, bit_map, ver) ==
  IF ProtocolVersion_block(ver) \in {"V1_8", "V1_9", "V1_12", "V1_14"}
  THEN [res |-> "MapChunk", pos |-> pos, full |-> full, bit_map |-> bit_map]
  ELSE [res |-> "abort", pos |-> pos, full |-> full, bit_map |-> bit_map]

(* serialize_chunk of the server: only the V1_8 arm is left, every other
   block version reaches unimplemented!(). *)
serialize_chunk(pos, bver) ==
  IF bver = "V1_8"
  THEN [res |-> "MapChunk", pos |-> pos, full |-> TRUE, bit_map |-> 0]
  ELSE [res |-> "abort", pos |-> pos, full |-> TRUE, bit_map |-> 0]

SerPos == {<<0, 0>>, <<1, 0>>, <<0 - 1, 2>>}
SerBitMaps == {1, 2 ^ 16 - 1}

ProxyChunk(pos, full, bit_map, ver) ==
  ser' = [fn |-> "packet::chunk", ver |-> ver, out |-> packet_chunk(pos, full, bit_map, ver)]
ServerSerializeChunk(pos, ver) ==
  ser' = [fn |-> "serialize_chunk", ver |-> ver,
          out |-> serialize_chunk(pos, ProtocolVersion_block(ver))]

----------------------------------------------------------------------------
(* The tick-time counter *)

(* World::mspt is an AtomicU32.  The global loop and each player loop run on
   an interval of 50 ms of their own: in every period the global loop runs
   once and every player loop once, in any order.  sum and cnt are the
   history of the times added since the last swap.  The counter stays far
   below 2^32 within a second. *)
MaxMsptTicks == 21
MaxMsptPlayers == 2
MsptElapsed == {2, 3}

(* A player joins after the world's first global tick: its loop starts. *)
MsptJoin ==
  /\ mspt.g = 1 /\ mspt.gdone /\ mspt.pdone = {}
  /\ mspt.n < MaxMsptPlayers
  /\ mspt' = [mspt EXCEPT !.n = @ + 1, !.last = "join"]

(* player_loop, one turn: player.tick() and the keep alive are timed and
   the elapsed milliseconds are added to the counter. *)
MsptPlayerTick(p, elapsed) ==
  /\ p \in 1..mspt.n /\ p \notin mspt.pdone
  /\ mspt' = [mspt EXCEPT !.acc = @ + elapsed,
                          !.sum = @ + elapsed, !.cnt = @ + 1,
                          !.pdone = @ \cup {p},
                          !.last = "player_tick"]

(* The value global_tick_loop puts into the footer. *)
footer_mspt(acc) == acc \div HeaderPeriod

(* global_tick_loop, one turn: every 20th tick the counter is swapped with 0
   and the footer is sent. *)
MsptGlobalTick ==
  /\ ~mspt.gdone
  /\ mspt.g < MaxMsptTicks
  /\ mspt' = IF mspt.g % HeaderPeriod = 0
             THEN [mspt EXCEPT !.pub = footer_mspt(mspt.acc),
                               !.pubSum = mspt.sum, !.pubCnt = mspt.cnt,
                               !.acc = 0, !.sum = 0, !.cnt = 0,
                               !.g = @ + 1, !.gdone = TRUE, !.last = "publish"]
             ELSE [mspt EXCEPT !.g = @ + 1, !.gdone = TRUE, !.last = "tick"]

(* The next period of 50 ms starts for all the intervals. *)
MsptInterval ==
  /\ mspt.gdone /\ mspt.pdone = 1..mspt.n
  /\ mspt.g < MaxMsptTicks
  /\ mspt' = [mspt EXCEPT !.gdone = FALSE, !.pdone = {}, !.last = "interval"]

----------------------------------------------------------------------------
(* Command argument parsers *)

(* A text is a sequence of characters.  str::find(' ') with
   unwrap_or(len), counted from 1: the place of the first space, or one past
   the end. *)
FirstSpace(text) ==
  IF \E i \in 1..Len(text) : text[i] = " "
  THEN CHOOSE i \in 1..Len(text) : text[i] = " " /\ \A j \in 1..(i - 1) : text[j] # " "
  ELSE Len(text) + 1
Section(text) == SubSeq(text, 1, FirstSpace(text) - 1)
StartsWith(text, p) == Len(text) >= Len(p) /\ SubSeq(text, 1, Len(p)) = p

ParseErr(e) == [ok |-> FALSE, err |-> e, t |-> "none", v |-> <<>>, len |-> 0]
ParseOk(t, v, len) == [ok |-> TRUE, err |-> "none", t |-> t, v |-> v, len |-> len]

(* str::parse::<i32>: an optional sign and one or more decimal digits. *)
Digits == {"0", "3"}
DigitVal(c) == IF c = "3" THEN 3 ELSE 0
RECURSIVE DigitsVal(_)
DigitsVal(s) == IF s = <<>> THEN 0 ELSE DigitsVal(SubSeq(s, 1, Len(s) - 1)) * 10 + DigitVal(s[Len(s)])
i32_from_str(s) ==
  LET body == IF s # <<>> /\ s[1] \in {"-", "+"} THEN Tail(s) ELSE s
  IN IF body = <<>> \/ \E i \in 1..Len(body) : body[i] \notin Digits
     THEN [ok |-> FALSE, v |-> 0]
     ELSE [ok |-> TRUE, v |-> IF s[1] = "-" THEN 0 - DigitsVal(body) ELSE DigitsVal(body)]

(* parse_num for T = i32; a bound is None (NoBound) or Some(v) (Bound(v)). *)
NoBound == <<>>
Bound(v) == <<v>>
parse_num(text, min, max) ==
  LET section == Section(text)
      r == i32_from_str(section)
  IN IF ~r.ok THEN ParseErr("InvalidText")
     ELSE IF (min # NoBound /\ r.v < min[1]) \/ (max # NoBound /\ r.v > max[1]) THEN ParseErr("Range")
     ELSE ParseOk("Int", <<r.v>>, Len(section))

(* Parser::parse, String(QuotablePhrase) with an opening quote: the loop
   over the characters after it, from character i on. *)
RECURSIVE QuotedLoop(_, _, _, _, _)
QuotedLoop(text, i, escaping, index, out) ==
  IF i > Len(text) THEN ParseOk("String", out, index + 1)
  ELSE IF escaping
  THEN IF text[i] \in {"\"", "\\"}
       THEN QuotedLoop(text, i + 1, FALSE, index + 1, Append(out, text[i]))
       ELSE ParseErr("InvalidText")
  ELSE IF text[i] = "\"" THEN ParseOk("String", out, index + 1)
  ELSE IF text[i] = "\\" THEN QuotedLoop(text, i + 1, TRUE, index + 1, out)
  ELSE QuotedLoop(text, i + 1, FALSE, index + 1, Append(out, text[i]))

(* The same without an opening quote: up to the first space after the
   first character. *)
UnquotedLen(text) ==
  IF \E i \in 2..Len(text) : text[i] = " "
  THEN (CHOOSE i \in 2..Len(text) : text[i] = " " /\ \A j \in 2..(i - 1) : text[j] # " ") - 1
  ELSE Len(text)

(* str::split(' ') *)
RECURSIVE Split(_)
Split(text) ==
  IF FirstSpace(text) > Len(text) THEN <<text>>
  ELSE <<Section(text)>> \o Split(SubSeq(text, FirstSpace(text) + 1, Len(text)))

(* Parser::parse for the parsers that read the text. *)
Parser_parse(parser, text) ==
  CASE parser.t = "Bool" ->
         IF StartsWith(text, <<"t", "r", "u", "e">>) THEN ParseOk("Bool", <<TRUE>>, 4)
         ELSE IF StartsWith(text, <<"f", "a", "l", "s", "e">>) THEN ParseOk("Bool", <<FALSE>>, 5)
         ELSE ParseErr("InvalidText")
    [] parser.t = "Int" -> parse_num(text, parser.min, parser.max)
    [] parser.t = "SingleWord" ->
         IF text = <<>> THEN ParseErr("EOF")
         ELSE ParseOk("String", Section(text), Len(Section(text)))
    [] parser.t = "QuotablePhrase" ->
         IF text = <<>> THEN ParseErr("EOF")
         ELSE IF text[1] = "\"" THEN QuotedLoop(text, 2, FALSE, 1, <<>>)
         ELSE ParseOk("String", SubSeq(text, 1, UnquotedLen(text)), UnquotedLen(text))
    [] OTHER ->
         LET sections == Split(text)
         IN IF Len(sections) < 3 THEN ParseErr("InvalidText")
            ELSE LET x == i32_from_str(sections[1])
                     y == i32_from_str(sections[2])
                     z == i32_from_str(sections[3])
                 IN IF ~x.ok \/ ~y.ok \/ ~z.ok THEN ParseErr("InvalidText")
                    ELSE ParseOk("BlockPos", <<x.v, y.v, z.v>>,
                                 Len(sections[1]) + Len(sections[2]) + Len(sections[3]) + 2)

(* The texts parsed. *)
MaxTextLen == 3
TextsOver(alphabet) == UNION {[1..n -> alphabet] : n \in 0..MaxTextLen}
BoolTexts == {<<>>, <<"t", "r", "u", "e">>, <<"f", "a", "l", "s", "e">>, <<"t", "r", "u">>, <<"t", "r", "u", "e", "x">>, <<"t", "r", "u", "e", " ", "x">>, <<"f", "a", "l", "s", "e", " ", "x">>}
PosTexts == {<<"3", " ", "0", " ", "-", "3">>, <<"3", " ", "0">>, <<"3", " ", "0", " ", "3", " ", "a">>, <<"3", " ", " ", "0", " ", "3">>, <<"3", "0", " ", "3", " ", "0">>, <<"3", " ", "a", " ", "0">>}
PlainParser(t) == [t |-> t, min |-> NoBound, max |-> NoBound]
ParserInputs ==
  ({PlainParser("Bool")} \X BoolTexts)
  \cup ({PlainParser("BlockPos")} \X PosTexts)
  \cup ({PlainParser("SingleWord"), PlainParser("QuotablePhrase")} \X TextsOver({"a", " ", "\"", "\\"}))
  \cup ({[t |-> "Int", min |-> a, max |-> b] : a \in {NoBound, Bound(1)}, b \in {NoBound, Bound(30)}}
        \X TextsOver({"0", "3", "-", " "}))

Parse(parser, text) ==
  prs' = [parser |-> parser, text |-> text, res |-> Parser_parse(parser, text)]

----------------------------------------------------------------------------
(* Block states *)

(* PropKind: Bool, Enum(values), Int { min, max }. *)
PropBool == [k |-> "Bool", v |-> <<>>, min |-> 0, max |-> 0]
PropEnum(v) == [k |-> "Enum", v |-> v, min |-> 0, max |-> 0]
PropInt(min, max) == [k |-> "Int", v |-> <<>>, min |-> min, max |-> max]

(* Prop::len *)
Prop_len(p) ==
  CASE p.k = "Bool" -> 2
    [] p.k = "Enum" -> Len(p.v)
    [] OTHER -> (p.max - p.min) + 1

(* StatePropKind: Bool(b), Enum(index, name), Int(i). *)
StateBool(b) == [k |-> "Bool", b |-> b, i |-> 0, s |-> ""]
StateEnum(i, s) == [k |-> "Enum", b |-> FALSE, i |-> i, s |-> s]
StateInt(i) == [k |-> "Int", b |-> FALSE, i |-> i, s |-> ""]

(* Prop::state *)
Prop_state(p, id) ==
  CASE p.k = "Bool" -> StateBool(id # 0)
    [] p.k = "Enum" -> StateEnum(id, p.v[id + 1])
    [] OTHER -> StateInt(id)

(* The for loop of Block::all_states that carries into the next property;
   brk is the break out of the outer loop. *)
RECURSIVE Carry(_, _, _)
Carry(properties, prop_ids, i) ==
  IF i > Len(prop_ids) THEN [brk |-> FALSE, ids |-> prop_ids]
  ELSE IF prop_ids[i] >= Prop_len(properties[i])
  THEN IF i >= Len(prop_ids) THEN [brk |-> TRUE, ids |-> prop_ids]
       ELSE Carry(properties, [prop_ids EXCEPT ![i] = 0, ![i + 1] = @ + 1], i + 1)
  ELSE [brk |-> FALSE, ids |-> prop_ids]

RECURSIVE AllStatesLoop(_, _, _)
AllStatesLoop(properties, prop_ids, states) ==
  LET pushed == Append(states, [i \in 1..Len(prop_ids) |-> Prop_state(properties[i], prop_ids[i])])
      c == Carry(properties, [prop_ids EXCEPT ![1] = @ + 1], 1)
  IN IF c.brk THEN pushed ELSE AllStatesLoop(properties, c.ids, pushed)

(* Block::all_states *)
Block_all_states(properties) ==
  IF properties = <<>> THEN << <<>> >>
  ELSE AllStatesLoop(properties, [i \in 1..Len(properties) |-> 0], <<>>)

(* The blocks tried: up to MaxProps properties of these kinds. *)
MaxProps == 3
PropKinds == {PropBool, PropEnum(<<"a", "b", "c">>), PropEnum(<<"x">>), PropInt(0, 1), PropInt(1, 3)}
BlockInputs == UNION {[1..n -> PropKinds] : n \in 0..MaxProps}

AllStates(properties) ==
  blk' = [called |-> TRUE, properties |-> properties, states |-> Block_all_states(properties)]

----------------------------------------------------------------------------
(* The light updates, one pass of the while loop at a time *)

(* The chunks updated: a new LightChunk and the corridor of air with any
   kinds at the cells of RunEdit.  One call of update is followed from its
   entry to its return. *)
RunEdit == {<<3, 64, 1>>, <<3, 63, 0>>}
RunKinds == {[c \in LightWin |-> IF c \in RunEdit THEN k[c] ELSE "air"] : k \in [RunEdit -> LightKinds]}
DarkChunk == [c \in LightWin |-> 0]
HasRepeat(queue) == \E i, j \in 1..Len(queue) : i # j /\ queue[i][1] = queue[j][1]

(* BlockLightChunk::update is entered: queue = vec![(pos, emitted)]. *)
BlockUpdateStart(kinds, pos) ==
  /\ lq.phase = "idle"
  /\ lq' = [phase |-> "run", fn |-> "block", kinds |-> kinds, pos |-> pos, light |-> DarkChunk,
            queue |-> <<<<pos, EmitLight(BlockData_get_kind(kinds, pos))>>>>,
            repeated |-> FALSE]

(* SkyLightChunk::update is entered on a chunk whose cell pos holds level:
   queue = vec![(pos, level)]. *)
SkyUpdateStart(kinds, pos, level) ==
  /\ lq.phase = "idle"
  /\ lq' = [phase |-> "run", fn |-> "sky", kinds |-> kinds, pos |-> pos,
            light |-> LightChunk_set_light(DarkChunk, pos, level),
            queue |-> <<<<pos, level>>>>,
            repeated |-> FALSE]

(* One iteration of while !queue.is_empty(): the for loop over the queue,
   then the swap of the queues. *)
WhilePass_no_swap(q) ==
  LET st == IF q.fn = "block"
            THEN BlockQueue([light |-> q.light, other_queue |-> <<>>], q.kinds, q.pos, q.queue, 1)
            ELSE SkyQueue([light |-> q.light, other_queue |-> <<>>], q.kinds, q.queue, 1)
  IN [q EXCEPT !.light = st.light]
WhilePass(q) ==
  LET st == IF q.fn = "block"
            THEN BlockQueue([light |-> q.light, other_queue |-> <<>>], q.kinds, q.pos, q.queue, 1)
            ELSE SkyQueue([light |-> q.light, other_queue |-> <<>>], q.kinds, q.queue, 1)
  IN [q EXCEPT !.light = st.light, !.queue = st.other_queue,
               !.repeated = @ \/ HasRepeat(st.other_queue)]
UpdatePass ==
  /\ lq.phase = "run"
  /\ lq.queue # <<>>
  /\ lq' = WhilePass(lq)

(* The loop condition fails and update returns. *)
UpdateReturn ==
  /\ lq.phase = "run"
  /\ lq.queue = <<>>
  /\ lq' = [lq EXCEPT !.phase = "done"]

----------------------------------------------------------------------------
(* The client's MeshChunk *)

(* The cells followed: a 2 x 1 x 2 corner at the bottom of the chunk; every
   other cell of the chunk stays air.  The wrapped Chunk is a store of block
   types that rejects positions outside the chunk. *)
MeshCells == {<<x, 0, z>> : x \in 0..1, z \in 0..1}
MeshTypes == {0, 1}
MeshInChunk(p) == p[1] \in 0..ChunkMaxRel /\ p[2] \in 0..(WorldHeight - 1) /\ p[3] \in 0..ChunkMaxRel
MeshGetAir(blocks, p) == MeshInChunk(p) /\ (IF p \in MeshCells THEN blocks[p] = 0 ELSE TRUE)

(* MeshChunk::update_mesh: the faces of the solid cells that have air on
   the other side (get_block == Ok(0)). *)
MeshFaces(blocks) ==
  {<<p, f>> \in MeshCells \X {Faces[i] : i \in 1..Len(Faces)} :
     /\ blocks[p] # 0
     /\ MeshGetAir(blocks, <<p[1] + FaceDelta(f)[1], p[2] + FaceDelta(f)[2], p[3] + FaceDelta(f)[3]>>)}

MaxMeshOps == 4

(* MeshChunk::set_block *)
MeshChunk_set_block(pos, ty) ==
  /\ mesh.ops < MaxMeshOps
  /\ mesh' = [mesh EXCEPT !.outdated = TRUE,
                          !.blocks = IF pos \in MeshCells THEN [@ EXCEPT ![pos] = ty] ELSE @,
                          !.ops = @ + 1, !.last = "set_block"]

(* MeshChunk::fill *)
MeshChunk_fill(min, max, ty) ==
  /\ mesh.ops < MaxMeshOps
  /\ mesh' = [mesh EXCEPT !.outdated = FALSE,
                          !.blocks = [p \in MeshCells |->
                                        IF /\ min[1] <= p[1] /\ p[1] <= max[1]
                                           /\ min[2] <= p[2] /\ p[2] <= max[2]
                                           /\ min[3] <= p[3] /\ p[3] <= max[3]
                                        THEN ty ELSE @[p]],
                          !.ops = @ + 1, !.last = "fill"]

(* MeshChunk::update_mesh *)
MeshChunk_update_mesh ==
  /\ mesh.ops < MaxMeshOps
  /\ mesh' = [mesh EXCEPT !.vbuf = MeshFaces(mesh.blocks), !.outdated = FALSE,
                          !.ops = @ + 1, !.last = "update_mesh"]

(* MeshChunk::get_vbuf *)
MeshChunk_get_vbuf ==
  /\ mesh.ops < MaxMeshOps
  /\ mesh' = [mesh EXCEPT !.vbuf = IF mesh.outdated THEN MeshFaces(mesh.blocks) ELSE @,
                          !.outdated = FALSE,
                          !.ops = @ + 1, !.last = "get_vbuf"]

----------------------------------------------------------------------------
(* Initial state and the operations as actions *)

Init ==
  /\ chunks = <<>>
  /\ inserted = [c \in ChunkWin |-> 0]
  /\ written = [w \in WorldCells |-> GenCell(Pos_chunk(w), Pos_chunk_rel(w))]
  /\ players = <<>>
  /\ pl = <<>>
  /\ outbox = [c \in Conns |-> <<>>]
  /\ tasks = {}
  /\ eid = FirstEid
  /\ steps = 0
  /\ lastOp = Op("init", TRUE, 0, NoPos, NoPos, 0)
  /\ lastSent = [c \in Conns |-> <<>>]
  /\ thr = [t \in Threads |-> [pc |-> "idle", pos |-> <<0, 0>>, ran |-> NoChunkId]]
  /\ rmap = <<>>
  /\ rins = [q \in RacePos |-> 0]
  /\ locks = [cr |-> {}, cw |-> 0, gr |-> {}, gw |-> 0]
  /\ mtx = <<>>
  /\ gens = {}
  /\ ethr = [t \in Threads |-> [pc |-> "idle", val |-> 0]]
  /\ elog = <<>>
  /\ pmap = {}
  /\ pmtx = NoTask
  /\ cst = [c \in Conns |->
             [rx |-> "open", closed |-> FALSE, dropped |-> FALSE, q |-> 0, log |-> <<>>]]
  /\ ptask = [c \in Conns |-> [reader |-> "none", ticker |-> "none", tick |-> 0, left |-> <<>>]]
  /\ gtask = [pc |-> "wait", tick |-> 0, left |-> <<>>]
  /\ jsr = [wire |-> <<>>, cons |-> <<>>, frames |-> <<>>, out |-> <<>>, last |-> "none",
            compression |-> 0, wcipher |-> NoCipher, rcipher |-> NoCipher, conf |-> FALSE,
            plain |-> <<>>, pushed |-> <<>>, encAt |-> 0 - 1, bad |-> 0, u |-> 0]
  /\ pv = [packets |-> <<>>, ids |-> <<>>, loaded |-> FALSE]
  /\ conv = [fn |-> "none", id |-> 0, damage |-> 0, ver |-> LatestBlockVersion, out |-> <<>>]
  /\ lit = [kinds |-> [c \in LightWin |-> "air"],
            block |-> [c \in LightWin |-> 0], sky |-> [c \in LightWin |-> 0],
            bdirty |-> {}, sdirty |-> {}, kindOps |-> 0, lightOps |-> 0,
            last |-> [op |-> "none", pos |-> <<3, 64, 0>>, level |-> 0, clean |-> FALSE]]
  /\ plug = [slot |-> NoHandler, regs |-> <<>>, calls |-> <<>>, events |-> 0,
             ev |-> [id |-> "u1", pos |-> <<0, 64, 0>>], ops |-> 0, last |-> "none"]
  /\ pinv = [inv |-> Inventory_new(InventorySize), selected_index |-> 0,
             read |-> 0, ops |-> 0, last |-> "none"]
  /\ ser = [fn |-> "none", ver |-> "V1_8",
            out |-> [res |-> "none", pos |-> <<0, 0>>, full |-> FALSE, bit_map |-> 0]]
  /\ mspt = [acc |-> 0, g |-> 0, gdone |-> FALSE, pdone |-> {}, n |-> 0, sum |-> 0, cnt |-> 0,
             pub |-> 0, pubSum |-> 0, pubCnt |-> 0, last |-> "none"]
  /\ prs = [parser |-> PlainParser("none"), text |-> <<>>, res |-> ParseErr("none")]
  /\ blk = [called |-> FALSE, properties |-> <<>>, states |-> <<>>]
  /\ lq = [phase |-> "idle", fn |-> "none", kinds |-> <<>>, pos |-> <<3, 64, 0>>,
           light |-> <<>>, queue |-> <<>>, repeated |-> FALSE]
  /\ mesh = [blocks |-> [p \in MeshCells |-> 0], outdated |-> FALSE, vbuf |-> {}, ops |-> 0, last |-> "new"]

(* WorldManager::new_player on a fresh connection c. *)
NewPlayer(c, u, v) ==
  /\ c \notin DOMAIN pl
  /\ c = Cardinality(DOMAIN pl) + 1
  /\ LET e == World_eid(eid)
         r == World_new_player(players, outbox, tasks, c, u)
     IN  /\ eid' = e.next
         /\ pl' = MapInsert(pl, c, Player_new(e.val, u, v, SpawnPos))
         /\ players' = r.players
         /\ outbox' = r.outbox
         /\ lastSent' = NewlySent(outbox, r.outbox)
         /\ tasks' = r.tasks
  /\ steps' = steps + 1
  /\ lastOp' = Op("new_player", u \notin DOMAIN players, c, NoPos, NoPos, 0)
  /\ UNCHANGED <<chunks, inserted, written>>

InBox(w, min, max) ==
  /\ min[1] <= w[1] /\ w[1] <= max[1]
  /\ min[2] <= w[2] /\ w[2] <= max[2]
  /\ min[3] <= w[3] /\ w[3] <= max[3]

SetBlock(pos, ty) ==
  /\ LET r == World_set_block(chunks, inserted, outbox, players, pl, pos, ty)
     IN  /\ chunks' = r.chunks
         /\ inserted' = r.inserted
         /\ outbox' = r.outbox
         /\ lastSent' = NewlySent(outbox, r.outbox)
         /\ written' = IF r.ok THEN [w \in WorldCells |-> IF w = pos THEN ty ELSE written[w]]
                       ELSE written
         /\ lastOp' = Op("set_block", r.ok, 0, pos, pos, ty)
  /\ steps' = steps + 1
  /\ UNCHANGED <<players, pl, tasks, eid>>

Fill(min, max, ty) ==
  /\ min[1] <= max[1] /\ min[2] <= max[2] /\ min[3] <= max[3]
  /\ LET r == World_fill(chunks, inserted, outbox, players, pl, min, max, ty)
     IN  /\ chunks' = r.chunks
         /\ inserted' = r.inserted
         /\ outbox' = r.outbox
         /\ lastSent' = NewlySent(outbox, r.outbox)
         /\ written' = IF r.ok
                       THEN [w \in WorldCells |-> IF InBox(w, min, max) THEN ty ELSE written[w]]
                       ELSE written
         /\ lastOp' = Op("fill", r.ok, 0, min, max, ty)
  /\ steps' = steps + 1
  /\ UNCHANGED <<players, pl, tasks, eid>>

(* One iteration of Connection::run that receives BlockDig{location: pos}. *)
RecvBlockDig(c, pos) ==
  /\ c \in tasks
  /\ LET r == Connection_run_BlockDig(chunks, inserted, outbox, players, pl, pos)
     IN  /\ chunks' = r.chunks
         /\ inserted' = r.inserted
         /\ outbox' = r.outbox
         /\ lastSent' = NewlySent(outbox, r.outbox)
  /\ lastOp' = Op("block_dig", TRUE, c, pos, pos, AirType)
  /\ steps' = steps + 1
  /\ UNCHANGED <<written, players, pl, tasks, eid>>

----------------------------------------------------------------------------
(* Player::tick *)

(* The commit at the head of tick: prev <- curr <- next, yaw wrapped, pitch clamped. *)
(* Angles are f32 degrees, held as multiples of 2^-17 degree. *)
YawUnit == 2 ^ 17
Deg(n) == n * YawUnit

(* The spacing of f32 values at magnitude v: 2^-15 degree from 256 up,
   2^-16 from 128 up, finer than the unit below. *)
F32Spacing(v) ==
  IF Abs(v) >= Deg(256) THEN 4 ELSE IF Abs(v) >= Deg(128) THEN 2 ELSE 1

(* An f32 result v >= 0 rounded to the nearest representable value, ties to even. *)
F32Round(v) ==
  LET g == F32Spacing(v)
      q == v \div g
      r == v % g
  IN  IF 2 * r < g THEN q * g
      ELSE IF 2 * r > g THEN (q + 1) * g
      ELSE IF q % 2 = 0 THEN q * g ELSE (q + 1) * g

(* the remainder alone, without the correction of negative values *)
NormYaw_rem_only(y) == RemTrunc(y, Deg(360))

(* pos.yaw % 360.0 is exact; pos.yaw += 360.0 rounds to f32. *)
NormYaw(y) ==
  IF RemTrunc(y, Deg(360)) < 0 THEN F32Round(RemTrunc(y, Deg(360)) + Deg(360))
  ELSE RemTrunc(y, Deg(360))
ClampPitch(x) == IF x > Deg(90) THEN Deg(90) ELSE IF x < 0 - Deg(90) THEN 0 - Deg(90) ELSE x
Player_commit(p) ==
  [p EXCEPT !.prev = p.curr, !.curr = p.next,
            !.yaw = NormYaw(p.next_yaw), !.pitch = ClampPitch(p.next_pitch)]

(* (deg / 360.0 * 256.0).round() as i8 *)
AngleStep == Deg(360) \div (2 ^ 8)
AngleByte(deg) == SatI8(RoundDiv(deg, AngleStep))

(* deg as i8: truncation toward zero of a whole number, saturating. *)
AngleAsI8(deg) == SatI8(IF deg >= 0 THEN deg \div YawUnit ELSE 0 - ((0 - deg) \div YawUnit))

IsV1_8(ver) == ver = "V1_8"

(* The scale of a relative move for an observer: x32 on 1.8, x4096 on 1.9+. *)
RelScale(ver) == IF IsV1_8(ver) THEN 32 ELSE 4096
RelMax(ver) == IF IsV1_8(ver) THEN I8Max ELSE I16Max

(* the limit taken as a whole number of blocks: 8 on 1.9+, 4 on 1.8 *)
AxisOverflows_blocks(d, ver) ==
  Abs(d) * RelScale(ver) > (RelMax(ver) + 1) * UnitsPerBlock

(* dx.abs() > MAX for the scaled delta d * scale, d in position units. *)
AxisOverflows(d, ver) == Abs(d) * RelScale(ver) > RelMax(ver) * UnitsPerBlock
AbsPos(d, ver) ==
  AxisOverflows(d[1], ver) \/ AxisOverflows(d[2], ver) \/ AxisOverflows(d[3], ver)

(* dx.round() as i8 / as i16 of the scaled delta. *)
RelDelta(d, ver) == RoundDiv(d * RelScale(ver), UnitsPerBlock)
RelVec(d, ver) == <<RelDelta(d[1], ver), RelDelta(d[2], ver), RelDelta(d[3], ver)>>
ZeroVec == <<0, 0, 0>>

(* The movement packets tick sends to one observer of version ver. *)
MovePackets(p, look_changed, pos_changed, ver) ==
  LET d == <<p.curr[1] - p.prev[1], p.curr[2] - p.prev[2], p.curr[3] - p.prev[3]>>
      yaw == IF look_changed THEN AngleByte(p.yaw) ELSE 0
      pitch == IF look_changed THEN AngleByte(p.pitch) ELSE 0
      head == IF look_changed
              THEN <<[t |-> "EntityHeadRotation", entity_id |-> p.eid,
                      head_yaw |-> AngleByte(p.yaw)]>>
              ELSE <<>>
      move ==
        IF pos_changed
        THEN IF AbsPos(d, ver)
             THEN [t |-> "EntityTeleport", entity_id |-> p.eid, pos |-> p.curr,
                   yaw |-> IF IsV1_8(ver) THEN AngleByte(p.yaw) ELSE AngleAsI8(p.yaw),
                   pitch |-> IF IsV1_8(ver) THEN AngleByte(p.pitch) ELSE AngleAsI8(p.pitch),
                   on_ground |-> TRUE]
             ELSE LET d8 == IF IsV1_8(ver) THEN RelVec(d, ver) ELSE ZeroVec
                      d9 == IF IsV1_8(ver) THEN ZeroVec ELSE RelVec(d, ver)
                  IN  IF look_changed
                      THEN [t |-> "EntityMoveLook", entity_id |-> p.eid,
                            d_v1_8 |-> d8, d_v1_9 |-> d9,
                            yaw |-> yaw, pitch |-> pitch, on_ground |-> TRUE]
                      ELSE [t |-> "RelEntityMove", entity_id |-> p.eid,
                            d_v1_8 |-> d8, d_v1_9 |-> d9, on_ground |-> TRUE]
        ELSE [t |-> "EntityLook", entity_id |-> p.eid,
              yaw |-> yaw, pitch |-> pitch, on_ground |-> TRUE]
  IN  head \o <<move>>

(* The players tick sends movement packets to: in view of the new chunk, not self. *)
Observers(pm, objs, p) ==
  {o \in PlayersInView(pm, objs, FPos_chunk(p.curr)) : objs[o].uuid # p.uuid}

(* ranges that include max *)
RectSeqExcl_inclusive(lo, hi) == RectSeqIncl(lo, hi)

(* Chunk positions min.x..max.x by min.z..max.z, both ends exclusive at max. *)
RectSeqExcl(lo, hi) == RectSeqIncl(lo, <<hi[1] - 1, hi[2] - 1>>)
SeqRange(q) == {q[i] : i \in 1..Len(q)}

(* The four corner pairs of the first pass (delta.x) and second pass (delta.z). *)
SidesX(old, new) ==
  LET r == ViewDistance
      new_tl == <<new[1] - r, new[2] - r>>
      new_br == <<new[1] + r, new[2] + r>>
      old_tl == <<old[1] - r, old[2] - r>>
      old_br == <<old[1] + r, old[2] + r>>
      none == <<0, 0>>
  IN  IF new[1] - old[1] > 0
      THEN [load_min |-> <<old_br[1], new_tl[2]>>, load_max |-> new_br,
            unload_min |-> old_tl, unload_max |-> <<new_tl[1], old_br[2]>>]
      ELSE IF new[1] - old[1] < 0
      THEN [load_min |-> new_tl, load_max |-> <<old_tl[1], new_br[2]>>,
            unload_min |-> <<new_br[1], old_tl[2]>>, unload_max |-> old_br]
      ELSE [load_min |-> none, load_max |-> none, unload_min |-> none, unload_max |-> none]

SidesZ(old, new) ==
  LET r == ViewDistance
      new_tl == <<new[1] - r, new[2] - r>>
      new_br == <<new[1] + r, new[2] + r>>
      old_tl == <<old[1] - r, old[2] - r>>
      old_br == <<old[1] + r, old[2] + r>>
      none == <<0, 0>>
  IN  IF new[2] - old[2] > 0
      THEN [load_min |-> <<new_tl[1], old_br[2]>>,
            load_max |-> <<Min2(new_br[1], old_br[1]), new_br[2]>>,
            unload_min |-> <<Max2(new_tl[1], old_tl[1]), old_tl[2]>>,
            unload_max |-> <<old_br[1], new_tl[2]>>]
      ELSE IF new[2] - old[2] < 0
      THEN [load_min |-> <<Max2(old_tl[1], new_tl[1]), new_tl[2]>>,
            load_max |-> <<new_br[1], old_tl[2]>>,
            unload_min |-> <<old_tl[1], new_br[2]>>,
            unload_max |-> <<Min2(old_br[1], new_br[1]), old_br[2]>>]
      ELSE [load_min |-> none, load_max |-> none, unload_min |-> none, unload_max |-> none]

(* World::store_chunks: every listed chunk replaces the entry under its key. *)
World_store_chunks(ch, cps) ==
  [q \in (DOMAIN ch) \cup (cps \cap ChunkWin) |->
     IF q \in cps THEN MultiChunk_new(q) ELSE ch[q]]
CountStore(ins, cps) == [q \in ChunkWin |-> IF q \in cps THEN ins[q] + 1 ELSE ins[q]]

MapChunk(cp) == [t |-> "MapChunk", x |-> cp[1], z |-> cp[2], bit_map |-> 1, chunk_data |-> <<>>]
UnloadPacket(cp, ver) ==
  IF IsV1_8(ver)
  THEN [t |-> "MapChunk", x |-> cp[1], z |-> cp[2], bit_map |-> 0, chunk_data |-> <<0>>]
  ELSE [t |-> "UnloadChunk", x |-> cp[1], z |-> cp[2]]

(* Player::load_chunks: generate every chunk of the rectangle, store them, send them. *)
Player_load_chunks(st, min, max) ==
  LET cps == RectSeqExcl(min, max)
  IN  [chunks |-> World_store_chunks(st.chunks, SeqRange(cps)),
       inserted |-> CountStore(st.inserted, SeqRange(cps)),
       ver |-> st.ver,
       pkts |-> st.pkts \o [i \in 1..Len(cps) |-> MapChunk(cps[i])]]

(* Player::unload_chunks *)
Player_unload_chunks(st, min, max) ==
  LET cps == RectSeqExcl(min, max)
  IN  [st EXCEPT !.pkts = @ \o [i \in 1..Len(cps) |-> UnloadPacket(cps[i], st.ver)]]

(* The streaming half of tick, run when the chunk changed. *)
StreamChunks(ch, ins, ver, old, new) ==
  LET st0 == [chunks |-> ch, inserted |-> ins, ver |-> ver, pkts |-> <<>>]
      sx == SidesX(old, new)
      sz == SidesZ(old, new)
      st1 == Player_load_chunks(st0, sx.load_min, sx.load_max)
      st2 == Player_unload_chunks(st1, sx.unload_min, sx.unload_max)
      st3 == Player_load_chunks(st2, sz.load_min, sz.load_max)
  IN  Player_unload_chunks(st3, sz.unload_min, sz.unload_max)

(* Player::set_next_pos / set_next_look *)
SetNextPos(c, f) ==
  /\ c \in tasks
  /\ pl[c].next # f
  /\ pl' = [pl EXCEPT ![c].next = f]
  /\ steps' = steps + 1
  /\ lastOp' = Op("set_next_pos", TRUE, c, NoPos, NoPos, 0)
  /\ lastSent' = [o \in Conns |-> <<>>]
  /\ UNCHANGED <<chunks, inserted, written, players, outbox, tasks, eid>>

SetNextLook(c, yaw, pitch) ==
  /\ c \in tasks
  /\ pl' = [pl EXCEPT ![c].next_yaw = yaw, ![c].next_pitch = pitch]
  /\ steps' = steps + 1
  /\ lastOp' = Op("set_next_look", TRUE, c, NoPos, NoPos, 0)
  /\ lastSent' = [o \in Conns |-> <<>>]
  /\ UNCHANGED <<chunks, inserted, written, players, outbox, tasks, eid>>

(* One call of Player::tick for the player of connection c. *)
Tick(c) ==
  /\ c \in tasks
  /\ LET p0 == pl[c]
         look_changed == p0.yaw # p0.next_yaw \/ p0.pitch # p0.next_pitch
         pos_changed == p0.curr # p0.next
         p == Player_commit(p0)
         objs == [pl EXCEPT ![c] = p]
         old_chunk == FPos_chunk(p.prev)
         new_chunk == FPos_chunk(p.curr)
         obs == IF pos_changed \/ look_changed THEN Observers(players, objs, p) ELSE {}
         ob1 == [o \in DOMAIN outbox |->
                   IF o \in obs
                   THEN outbox[o] \o MovePackets(p, look_changed, pos_changed, objs[o].ver)
                   ELSE outbox[o]]
         st == IF old_chunk # new_chunk
               THEN StreamChunks(chunks, inserted, p.ver, old_chunk, new_chunk)
               ELSE [chunks |-> chunks, inserted |-> inserted, ver |-> p.ver, pkts |-> <<>>]
     IN  /\ pl' = objs
         /\ outbox' = Send(ob1, c, st.pkts)
         /\ lastSent' = NewlySent(outbox, Send(ob1, c, st.pkts))
         /\ chunks' = st.chunks
         /\ inserted' = st.inserted
         /\ lastOp' = Op("tick", pos_changed \/ look_changed, c, p0.curr, p0.next, 0)
  /\ steps' = steps + 1
  /\ UNCHANGED <<written, players, tasks, eid>>

----------------------------------------------------------------------------
(* Specifications *)

others == <<raceVars, eidVars, taskVars, jsr, dataVars>>

(* The world under set_block and fill alone. *)
NextBlocks ==
  \/ steps < MaxBlockOps /\ \E pos \in InPos, ty \in InTypes : SetBlock(pos, ty) /\ UNCHANGED others
  \/ steps < MaxBlockOps /\ \E min \in InPos, max \in InPos, ty \in InTypes : Fill(min, max, ty) /\ UNCHANGED others

SpecBlocks == Init /\ [][NextBlocks]_vars

(* The world with players joining, block changes and digging.  The player
   spawns in chunk (0, 0): chunks 9 and 10 are in its view, chunk 11 is not. *)
MainPos ==
  {<<159, 0, 15>>, <<175, WorldHeight - 1, 16>>, <<176, WorldHeight - 1, 16>>,
   <<175, WorldHeight, 16>>, <<159, 0 - 1, 15>>}
DigPos == {<<159, 0, 15>>, <<176, WorldHeight - 1, 16>>}

Next ==
  \/ steps < MaxSteps /\ \E c \in Conns, u \in UUIDs, v \in VersionSet : NewPlayer(c, u, v) /\ UNCHANGED others
  \/ steps < MaxSteps /\ \E pos \in MainPos, ty \in InTypes : SetBlock(pos, ty) /\ UNCHANGED others
  \/ steps < MaxSteps /\ \E min \in MainPos, max \in MainPos, ty \in InTypes : Fill(min, max, ty) /\ UNCHANGED others
  \/ steps < MaxSteps /\ \E c \in Conns, pos \in DigPos : RecvBlockDig(c, pos) /\ UNCHANGED others

Spec == Init /\ [][Next]_vars

(* The world with a player that walks across chunk borders while blocks are set. *)
StreamBlockPos == {<<160, 0, 0>>, <<175, 0, 16>>}
StreamFPos ==
  {BlocksToFPos(16, SpawnY, 0), BlocksToFPos(0, SpawnY, 16), BlocksToFPos(176, SpawnY, 0),
   SpawnPos}

NextStream ==
  \/ steps < MaxStreamSteps /\ \E c \in Conns, u \in UUIDs, v \in {"V1_8", "V1_12_2"} :
       NewPlayer(c, u, v) /\ UNCHANGED others
  \/ steps < MaxStreamSteps /\ \E pos \in StreamBlockPos : SetBlock(pos, 2) /\ UNCHANGED others
  \/ steps < MaxStreamSteps /\ \E c \in Conns, f \in StreamFPos : SetNextPos(c, f) /\ UNCHANGED others
  \/ steps < MaxStreamSteps /\ \E c \in Conns : Tick(c) /\ UNCHANGED others

SpecStream == Init /\ [][NextStream]_vars

(* Two players, one moving and turning by small amounts, the other observing. *)
TickDeltas ==
  {<<2048, 0, 0>>, <<32512, 0, 0>>, <<32768, 0, 0>>, <<65534, 0, 0>>, <<65535, 0, 0>>,
   <<65536, 0, 0>>, <<0, 2048, 0 - 65536>>, <<0, 0, 0>>}
TickFPos == {<<SpawnPos[1] + d[1], SpawnPos[2] + d[2], SpawnPos[3] + d[3]>> : d \in TickDeltas}
TickLooks ==
  {<<Deg(90), Deg(45)>>, <<Deg(180), 0 - Deg(90)>>, <<Deg(270), 0>>,
   <<Deg(359), Deg(100)>>, <<0 - Deg(90), 0>>, <<Deg(450), 0 - Deg(100)>>, <<0 - 1, 0>>}

NextTick ==
  \/ steps < MaxTickSteps /\ \E c \in Conns, u \in UUIDs, v \in {"V1_8", "V1_12_2"} :
       NewPlayer(c, u, v) /\ UNCHANGED others
  \/ steps < MaxTickSteps /\ \E c \in Conns, f \in TickFPos : SetNextPos(c, f) /\ UNCHANGED others
  \/ steps < MaxTickSteps /\ \E c \in Conns, l \in TickLooks : SetNextLook(c, l[1], l[2]) /\ UNCHANGED others
  \/ steps < MaxTickSteps /\ \E c \in Conns : Tick(c) /\ UNCHANGED others

SpecTick == Init /\ [][NextTick]_vars

(* One player that walks and jumps across chunk borders in every direction. *)
ViewFPos ==
  {SpawnPos, BlocksToFPos(16, SpawnY, 0), BlocksToFPos(32, SpawnY, 0),
   BlocksToFPos(0, SpawnY, 16), BlocksToFPos(16, SpawnY, 16),
   BlocksToFPos(16, SpawnY, 0 - 16), BlocksToFPos(480, SpawnY, 0)}

NextView ==
  \/ steps < MaxViewSteps /\ \E v \in {"V1_8", "V1_12_2"} : NewPlayer(1, "u1", v) /\ UNCHANGED others
  \/ steps < MaxViewSteps /\ \E f \in ViewFPos : SetNextPos(1, f) /\ UNCHANGED others
  \/ steps < MaxViewSteps /\ Tick(1) /\ UNCHANGED others

SpecView == Init /\ [][NextView]_vars

(* Threads calling World::chunk for positions not yet in the map. *)
NextRace ==
  \/ \E t \in Threads, q \in RacePos : ChunkCall(t, q) /\ UNCHANGED <<worldVars, eid, eidVars, taskVars, jsr, dataVars>>
  \/ \E t \in Threads : ChunkCheck(t) /\ UNCHANGED <<worldVars, eid, eidVars, taskVars, jsr, dataVars>>
  \/ \E t \in Threads : ChunkWLock(t) /\ UNCHANGED <<worldVars, eid, eidVars, taskVars, jsr, dataVars>>
  \/ \E t \in Threads : ChunkEntry(t) /\ UNCHANGED <<worldVars, eid, eidVars, taskVars, jsr, dataVars>>
  \/ \E t \in Threads : GenCheck(t) /\ UNCHANGED <<worldVars, eid, eidVars, taskVars, jsr, dataVars>>
  \/ \E t \in Threads : GenWLock(t) /\ UNCHANGED <<worldVars, eid, eidVars, taskVars, jsr, dataVars>>
  \/ \E t \in Threads : GenRLock(t) /\ UNCHANGED <<worldVars, eid, eidVars, taskVars, jsr, dataVars>>
  \/ \E t \in Threads : GenGenerate(t) /\ UNCHANGED <<worldVars, eid, eidVars, taskVars, jsr, dataVars>>
  \/ \E t \in Threads : ChunkInsert(t) /\ UNCHANGED <<worldVars, eid, eidVars, taskVars, jsr, dataVars>>
  \/ \E t \in Threads : ChunkRLock(t) /\ UNCHANGED <<worldVars, eid, eidVars, taskVars, jsr, dataVars>>
  \/ \E t \in Threads : ChunkMLock(t) /\ UNCHANGED <<worldVars, eid, eidVars, taskVars, jsr, dataVars>>
  \/ \E t \in Threads : ChunkRunF(t) /\ UNCHANGED <<worldVars, eid, eidVars, taskVars, jsr, dataVars>>

SpecRace == Init /\ [][NextRace]_vars

(* Threads calling World::eid. *)
NextEid ==
  \/ EidInvocations < MaxEidCalls /\ \E t \in Threads : EidInvoke(t) /\ UNCHANGED <<worldVars, raceVars, taskVars, jsr, dataVars>>
  \/ \E t \in Threads : EidFetchAdd(t) /\ UNCHANGED <<worldVars, raceVars, taskVars, jsr, dataVars>>
  \/ \E t \in Threads : EidReturn(t) /\ UNCHANGED <<worldVars, raceVars, taskVars, jsr, dataVars>>

SpecEid == Init /\ [][NextEid]_vars

(* The tasks of the connections and the global tick task. *)
NextTasks ==
  \/ \E c \in Conns : JoinInsert(c) /\ UNCHANGED <<worldVars, eid, raceVars, eidVars, jsr, dataVars>>
  \/ \E c \in Conns, how \in {"eof", "err"} : StreamEnd(c, how) /\ UNCHANGED <<worldVars, eid, raceVars, eidVars, jsr, dataVars>>
  \/ \E c \in Conns : QueueDrop(c) /\ UNCHANGED <<worldVars, eid, raceVars, eidVars, jsr, dataVars>>
  \/ \E c \in Conns : Drain(c) /\ UNCHANGED <<worldVars, eid, raceVars, eidVars, jsr, dataVars>>
  \/ \E c \in Conns : Connection_run(c) /\ UNCHANGED <<worldVars, eid, raceVars, eidVars, jsr, dataVars>>
  \/ \E c \in Conns : PlayerInit(c) /\ UNCHANGED <<worldVars, eid, raceVars, eidVars, jsr, dataVars>>
  \/ \E c \in Conns : LoopHead(c) /\ UNCHANGED <<worldVars, eid, raceVars, eidVars, jsr, dataVars>>
  \/ \E c \in Conns : FanLock(c) /\ UNCHANGED <<worldVars, eid, raceVars, eidVars, jsr, dataVars>>
  \/ \E c \in Conns : FanSend(c) /\ UNCHANGED <<worldVars, eid, raceVars, eidVars, jsr, dataVars>>
  \/ \E c \in Conns : KeepAlive(c) /\ UNCHANGED <<worldVars, eid, raceVars, eidVars, jsr, dataVars>>
  \/ \E c \in Conns : RemovePlayer(c) /\ UNCHANGED <<worldVars, eid, raceVars, eidVars, jsr, dataVars>>
  \/ GlobalTick /\ UNCHANGED <<worldVars, eid, raceVars, eidVars, jsr, dataVars>>
  \/ GlobalLock /\ UNCHANGED <<worldVars, eid, raceVars, eidVars, jsr, dataVars>>
  \/ GlobalSend /\ UNCHANGED <<worldVars, eid, raceVars, eidVars, jsr, dataVars>>

SpecTasks == Init /\ [][NextTasks]_vars

(* One JavaStreamReader and the client that writes to its socket. *)
NextReader ==
  \/ \E f \in JsrPayloads : ClientWrite(f) /\ UNCHANGED <<worldVars, eid, raceVars, eidVars, taskVars, dataVars>>
  \/ \E n \in PollSizes : StreamReader_poll(n) /\ UNCHANGED <<worldVars, eid, raceVars, eidVars, taskVars, dataVars>>
  \/ ReadPacket /\ UNCHANGED <<worldVars, eid, raceVars, eidVars, taskVars, dataVars>>

SpecReader == Init /\ [][NextReader]_vars

CodecPackets == {<<7>>, <<7, 9>>, <<9, 7, 9>>}
CompThresholds == {0, 2}

(* A JavaStreamWriter and the JavaStreamReader that gets its bytes, with
   compression and encryption. *)
NextCodec ==
  \/ \E t \in CompThresholds, enc \in BOOLEAN : Configure(t, enc) /\ UNCHANGED <<worldVars, eid, raceVars, eidVars, taskVars, dataVars>>
  \/ \E f \in CodecPackets : ClientWrite(f) /\ UNCHANGED <<worldVars, eid, raceVars, eidVars, taskVars, dataVars>>
  \/ WriterEnableEncryption /\ UNCHANGED <<worldVars, eid, raceVars, eidVars, taskVars, dataVars>>
  \/ ReaderEnableEncryption /\ UNCHANGED <<worldVars, eid, raceVars, eidVars, taskVars, dataVars>>
  \/ \E n \in PollSizes : StreamReader_poll(n) /\ UNCHANGED <<worldVars, eid, raceVars, eidVars, taskVars, dataVars>>
  \/ ReadPacket /\ UNCHANGED <<worldVars, eid, raceVars, eidVars, taskVars, dataVars>>

SpecCodec == Init /\ [][NextCodec]_vars

(* The same reader when the peer also writes frames of its own making. *)
NextInflate ==
  \/ \E t \in CompThresholds, enc \in BOOLEAN : Configure(t, enc) /\ UNCHANGED <<worldVars, eid, raceVars, eidVars, taskVars, dataVars>>
  \/ \E f \in CodecPackets : ClientWrite(f) /\ UNCHANGED <<worldVars, eid, raceVars, eidVars, taskVars, dataVars>>
  \/ \E f \in CodecPackets : PeerWriteWrongLength(f) /\ UNCHANGED <<worldVars, eid, raceVars, eidVars, taskVars, dataVars>>
  \/ \E n \in PollSizes : StreamReader_poll(n) /\ UNCHANGED <<worldVars, eid, raceVars, eidVars, taskVars, dataVars>>
  \/ ReadPacket /\ UNCHANGED <<worldVars, eid, raceVars, eidVars, taskVars, dataVars>>

SpecInflate == Init /\ [][NextInflate]_vars

(* The packet id tables of the versions. *)
NextIds ==
  \E l \in PacketLists : PacketVersion_new(l) /\ UNCHANGED <<lateVars, baseVars, conv, lit, plug, pinv>>

SpecIds == Init /\ [][NextIds]_vars

(* Calls of the type converters. *)
NextConv ==
  \E fn \in ConvFns, id \in 0..MaxConvId, ver \in VersionSet :
    \E damage \in (IF fn = "item_to_new" THEN 0..MaxDamage ELSE {0}) :
      Convert(fn, id, damage, ver) /\ UNCHANGED <<lateVars, baseVars, pv, lit, plug, pinv>>

SpecConv == Init /\ [][NextConv]_vars

(* Blocks placed in a chunk and its light updates. *)
NextLight ==
  \/ \E p \in EditPos, k \in LightKinds : SetKind(p, k) /\ UNCHANGED <<lateVars, baseVars, pv, conv, plug, pinv>>
  \/ \E p \in SkySeeds, l \in SkyLevels : SetSkyLight(p, l) /\ UNCHANGED <<lateVars, baseVars, pv, conv, plug, pinv>>
  \/ \E p \in EditPos : BlockLightUpdate(p) /\ UNCHANGED <<lateVars, baseVars, pv, conv, plug, pinv>>
  \/ \E p \in EditPos : SkyLightUpdate(p) /\ UNCHANGED <<lateVars, baseVars, pv, conv, plug, pinv>>

SpecLight == Init /\ [][NextLight]_vars

(* Registrations and block place events of a plugin. *)
NextPlugin ==
  \/ \E h \in Handlers : set_on_block_place(h) /\ UNCHANGED <<lateVars, baseVars, pv, conv, lit, pinv>>
  \/ \E id \in UUIDs, p \in PlacePos :
       on_block_place(id, p[1], p[2], p[3]) /\ UNCHANGED <<lateVars, baseVars, pv, conv, lit, pinv>>

SpecPlugin == Init /\ [][NextPlugin]_vars

(* Operations on a player's inventory. *)
NextInv ==
  \/ \E i \in SelectedInputs : set_selected(i) /\ UNCHANGED <<lateVars, baseVars, pv, conv, lit, plug>>
  \/ \E i \in SlotInputs, s \in StackInputs :
       PlayerInventory_set(i, s) /\ UNCHANGED <<lateVars, baseVars, pv, conv, lit, plug>>
  \/ \E i \in SlotInputs : PlayerInventory_get(i) /\ UNCHANGED <<lateVars, baseVars, pv, conv, lit, plug>>
  \/ main_hand /\ UNCHANGED <<lateVars, baseVars, pv, conv, lit, plug>>

SpecInv == Init /\ [][NextInv]_vars

(* Chunks serialized for a client of each version. *)
NextSer ==
  \/ \E pos \in SerPos, full \in BOOLEAN, bm \in SerBitMaps, ver \in SerVersions :
       ProxyChunk(pos, full, bm, ver) /\ UNCHANGED <<baseVars, earlyData, mspt, prs, blk, lq, mesh>>
  \/ \E pos \in SerPos, ver \in SerVersions :
       ServerSerializeChunk(pos, ver) /\ UNCHANGED <<baseVars, earlyData, mspt, prs, blk, lq, mesh>>

SpecSer == Init /\ [][NextSer]_vars

(* The tick loops and the counter they share. *)
NextMspt ==
  \/ MsptJoin /\ UNCHANGED <<baseVars, earlyData, ser, prs, blk, lq, mesh>>
  \/ \E p \in 1..MaxMsptPlayers, e \in MsptElapsed :
       MsptPlayerTick(p, e) /\ UNCHANGED <<baseVars, earlyData, ser, prs, blk, lq, mesh>>
  \/ MsptGlobalTick /\ UNCHANGED <<baseVars, earlyData, ser, prs, blk, lq, mesh>>
  \/ MsptInterval /\ UNCHANGED <<baseVars, earlyData, ser, prs, blk, lq, mesh>>

SpecMspt == Init /\ [][NextMspt]_vars

(* Arguments parsed from a command's text. *)
NextParse ==
  \E in \in ParserInputs :
    Parse(in[1], in[2]) /\ UNCHANGED <<baseVars, earlyData, ser, mspt, blk, lq, mesh>>

SpecParse == Init /\ [][NextParse]_vars

(* The states of a block. *)
NextBlock ==
  \E properties \in BlockInputs :
    AllStates(properties) /\ UNCHANGED <<baseVars, earlyData, ser, mspt, prs, lq, mesh>>

SpecBlock == Init /\ [][NextBlock]_vars

(* A light update, pass by pass.  update is one call that runs its loop
   without waiting for anything, so a pass that can be taken is taken. *)
lqFrame == <<baseVars, earlyData, ser, mspt, prs, blk, mesh>>
NextLightRun ==
  \/ \E kinds \in RunKinds, pos \in RunEdit : BlockUpdateStart(kinds, pos) /\ UNCHANGED lqFrame
  \/ \E kinds \in RunKinds, pos \in SkySeeds, level \in SkyLevels :
       SkyUpdateStart(kinds, pos, level) /\ UNCHANGED lqFrame
  \/ UpdatePass /\ UNCHANGED lqFrame
  \/ UpdateReturn /\ UNCHANGED lqFrame

SpecLightRun ==
  Init /\ [][NextLightRun]_vars /\ WF_lq(UpdatePass \/ UpdateReturn)

(* A mesh chunk of the client under block changes and rendering. *)
meshFrame == <<baseVars, earlyData, ser, mspt, prs, blk, lq>>
MeshSetPos == MeshCells \cup {<<0, 0 - 1, 0>>}
NextMesh ==
  \/ \E pos \in MeshSetPos, ty \in MeshTypes : MeshChunk_set_block(pos, ty) /\ UNCHANGED meshFrame
  \/ \E min \in MeshCells, max \in MeshCells, ty \in MeshTypes :
       MeshChunk_fill(min, max, ty) /\ UNCHANGED meshFrame
  \/ MeshChunk_update_mesh /\ UNCHANGED meshFrame
  \/ MeshChunk_get_vbuf /\ UNCHANGED meshFrame

SpecMesh == Init /\ [][NextMesh]_vars

(* One JavaStreamReader whose client writes frames of about the size of
   the ring buffer, without compression or encryption. *)
RingPayloads == {<<7>>, [i \in 1..600 |-> 1], [i \in 1..(RingCapacity + 1) |-> 2]}
RingPollSizes == {300, RingCapacity}
ringFrame == <<worldVars, eid, raceVars, eidVars, taskVars, dataVars>>
NextRing ==
  \/ \E f \in RingPayloads : ClientWrite(f) /\ UNCHANGED ringFrame
  \/ \E n \in RingPollSizes : StreamReader_poll(n) /\ UNCHANGED ringFrame
  \/ ReadPacket /\ UNCHANGED ringFrame

SpecRing == Init /\ [][NextRing]_vars

----------------------------------------------------------------------------
(* Properties *)

SeqElems(q) == {q[i] : i \in 1..Len(q)}
DuplicateJoin == lastOp.kind = "new_player" /\ ~lastOp.ok
(* The connection that holds the uuid of connection c in the player map. *)
HolderOf(c) == players[pl[c].uuid]

(* C1 (as amended): when new_player is called for a uuid that is already in
   the player map, the newly connecting player is the one sent the
   KickDisconnect "Another player with the same id is already connected!",
   the map entry stays the first player, which keeps its tasks and is sent
   nothing, and the newcomer gets no reader or tick task. *)
C1_NewcomerIsKicked ==
  DuplicateJoin =>
    /\ HolderOf(lastOp.c) < lastOp.c
    /\ lastSent[lastOp.c] = <<KickDisconnect(KickMsg)>>
    /\ lastSent[HolderOf(lastOp.c)] = <<>>
    /\ lastOp.c \notin tasks
    /\ HolderOf(lastOp.c) \in tasks

C1_Witness == DuplicateJoin /\ outbox[lastOp.c] # <<>>

(* C1 (original): the first player is sent the KickDisconnect and the map
   entry for the uuid becomes the second player, which gets its tasks. *)
C1_FirstIsKicked ==
  DuplicateJoin =>
    /\ \E f \in (DOMAIN pl) \ {lastOp.c} :
          /\ pl[f].uuid = pl[lastOp.c].uuid
          /\ KickDisconnect(KickMsg) \in SeqElems(lastSent[f])
    /\ HolderOf(lastOp.c) = lastOp.c
    /\ lastOp.c \in tasks

(* C2: after any sequence of set_block and fill calls, every position reads
   the type of the last successful call that covered it, and a position no
   call covered reads its generated type. *)
C2_ReadsLastWritten == \A w \in WorldCells : ReadBlock(chunks, w) = written[w]

C2_Witness ==
  /\ lastOp.kind = "fill" /\ lastOp.ok
  /\ Pos_chunk(lastOp.b)[1] - Pos_chunk(lastOp.a)[1] = 2
  /\ \E w \in WorldCells :
       /\ ~InBox(w, lastOp.a, lastOp.b)
       /\ written[w] # GenCell(Pos_chunk(w), Pos_chunk_rel(w))
  /\ \E w \in WorldCells :
       /\ InBox(w, lastOp.a, lastOp.b)
       /\ Pos_chunk(w)[1] = Pos_chunk(lastOp.a)[1] + 1
       /\ written[w] # GenCell(Pos_chunk(w), Pos_chunk_rel(w))

(* C3: a chunk position gets its map entry once and keeps it, so every
   block written by set_block is read back whatever the players do. *)
C3_ChunkEntriesKept ==
  /\ \A q \in ChunkWin : inserted[q] <= 1
  /\ \A w \in WorldCells : ReadBlock(chunks, w) = written[w]

BlockOpFailed(op) == op.kind \in {"set_block", "fill"} /\ ~op.ok

(* C6: a set_block or fill that returns a PosError changes no block of the
   world and sends no packet to any player. *)
C6_ErrorLeavesWorld ==
  [][BlockOpFailed(lastOp') =>
       /\ \A w \in WorldCells : ReadBlock(chunks', w) = ReadBlock(chunks, w)
       /\ outbox' = outbox
       /\ \A c \in Conns : lastSent'[c] = <<>>]_vars

C6_Witness ==
  /\ BlockOpFailed(lastOp)
  /\ \E u \in DOMAIN players :
       Abs(Pos_chunk(lastOp.a)[1] - FPos_chunk(pl[players[u]].curr)[1]) <= 10
  /\ \E w \in WorldCells : written[w] # GenCell(Pos_chunk(w), Pos_chunk_rel(w))

(* C7: once the receive loop has processed a BlockDig for an in-world
   position, the block there is air and every player in view of it has been
   sent the BlockChange with type 0 (converted to its version). *)
C7_DigBreaksBlock ==
  lastOp.kind = "block_dig" =>
    /\ ReadBlock(chunks, lastOp.a) = 0
    /\ \A u \in DOMAIN players :
         (/\ Abs(Pos_chunk(lastOp.a)[1] - FPos_chunk(pl[players[u]].curr)[1]) <= 10
          /\ Abs(Pos_chunk(lastOp.a)[2] - FPos_chunk(pl[players[u]].curr)[2]) <= 10)
         => BlockChange(lastOp.a, block_to_old(0, pl[players[u]].ver))
              \in SeqElems(lastSent[players[u]])

(* The connection is in the player map and its chunk is within 10 of cpos. *)
InMapAndNear(c, cpos) ==
  /\ c \in DOMAIN pl
  /\ pl[c].uuid \in DOMAIN players
  /\ players[pl[c].uuid] = c
  /\ Abs(cpos[1] - FPos_chunk(pl[c].curr)[1]) <= 10
  /\ Abs(cpos[2] - FPos_chunk(pl[c].curr)[2]) <= 10

(* C8: after a successful set_block(pos, ty), every player of the player map
   within 10 chunks of pos on x and z has been sent exactly one BlockChange
   for pos, carrying ty converted to its version, and nobody else anything. *)
C8_BlockChangeToViewers ==
  (lastOp.kind = "set_block" /\ lastOp.ok) =>
    \A c \in Conns :
      lastSent[c] =
        IF InMapAndNear(c, Pos_chunk(lastOp.a))
        THEN <<BlockChange(lastOp.a, block_to_old(lastOp.ty, pl[c].ver))>>
        ELSE <<>>

C8_Witness ==
  /\ lastOp.kind = "set_block" /\ lastOp.ok
  /\ Pos_chunk(lastOp.a)[1] = 10
  /\ \E c \in Conns : lastSent[c] # <<>> /\ pl[c].ver = "V1_8" /\ lastOp.ty = 2

(* The tick of lastOp moved the player: its delta in position units. *)
TickMoved == lastOp.kind = "tick" /\ lastOp.a # lastOp.b
TickDelta == <<lastOp.b[1] - lastOp.a[1], lastOp.b[2] - lastOp.a[2], lastOp.b[3] - lastOp.a[3]>>

(* The players that observe the ticking player: in the map, another uuid. *)
TickObservers ==
  {o \in (DOMAIN pl) \ {lastOp.c} :
     /\ InMapAndNear(o, FPos_chunk(pl[lastOp.c].curr))
     /\ pl[o].uuid # pl[lastOp.c].uuid}

LastPacket(o) == lastSent[o][Len(lastSent[o])]
IsRelative(m) == m.t \in {"RelEntityMove", "EntityMoveLook"}

(* Every axis of the scaled delta is at most lim (8192 position units per block). *)
ScaledFits(scale, lim) == \A i \in 1..3 : Abs(TickDelta[i]) * scale <= lim * 8192
Scaled(scale) == [i \in 1..3 |-> RoundDiv(TickDelta[i] * scale, 8192)]

(* C9 (as amended): when the position changed, an observer on 1.9+ is sent
   a relative move with delta = round(axis difference x 4096) whenever every
   scaled axis delta has magnitude at most 32767 (just under 8 blocks), and
   a V1_8 observer one with delta x 32 whenever every scaled axis delta has
   magnitude at most 127 (just under 4 blocks); otherwise EntityTeleport.  A
   delta of exactly 8 blocks (4 on 1.8) is sent as EntityTeleport. *)
C9_RelativeWithinRange ==
  TickMoved =>
    \A o \in TickObservers :
      /\ lastSent[o] # <<>>
      /\ IF pl[o].ver = "V1_8"
         THEN IF ScaledFits(32, 127)
              THEN IsRelative(LastPacket(o)) /\ LastPacket(o).d_v1_8 = Scaled(32)
              ELSE LastPacket(o).t = "EntityTeleport"
         ELSE IF ScaledFits(4096, 32767)
              THEN IsRelative(LastPacket(o)) /\ LastPacket(o).d_v1_9 = Scaled(4096)
              ELSE LastPacket(o).t = "EntityTeleport"

C9_Witness ==
  /\ TickMoved
  /\ TickDelta = <<8 * 8192, 0, 0>>
  /\ \E o \in TickObservers : pl[o].ver # "V1_8" /\ LastPacket(o).t = "EntityTeleport"

(* C9 (original): the move is relative whenever every axis delta is at most
   8 blocks (4 blocks for a V1_8 observer), exactly 8 (4) included, and an
   EntityTeleport for any greater delta. *)
C9_RelativeUpToEightBlocks ==
  TickMoved =>
    \A o \in TickObservers :
      /\ lastSent[o] # <<>>
      /\ IF pl[o].ver = "V1_8"
         THEN IF \A i \in 1..3 : Abs(TickDelta[i]) <= 4 * 8192
              THEN IsRelative(LastPacket(o)) /\ LastPacket(o).d_v1_8 = Scaled(32)
              ELSE LastPacket(o).t = "EntityTeleport"
         ELSE IF \A i \in 1..3 : Abs(TickDelta[i]) <= 8 * 8192
              THEN IsRelative(LastPacket(o)) /\ LastPacket(o).d_v1_9 = Scaled(4096)
              ELSE LastPacket(o).t = "EntityTeleport"

(* round(deg / 360 x 256) mod 256 as a signed byte *)
EncodedAngle(deg) == WrapI8(RoundDiv(deg, (360 * YawUnit) \div 256))

(* C10: the angle bytes of EntityLook, EntityMoveLook and EntityHeadRotation
   are round(deg / 360 x 256) mod 256 of the committed yaw and pitch, as
   signed bytes. *)
C10_AngleBytes ==
  (lastOp.kind = "tick" /\ pl[lastOp.c].yaw < 360 * YawUnit) =>
    \A o \in TickObservers :
      \A i \in 1..Len(lastSent[o]) :
        /\ lastSent[o][i].t = "EntityHeadRotation"
             => lastSent[o][i].head_yaw = EncodedAngle(pl[lastOp.c].yaw)
        /\ lastSent[o][i].t \in {"EntityLook", "EntityMoveLook"}
             => /\ lastSent[o][i].yaw = EncodedAngle(pl[lastOp.c].yaw)
                /\ lastSent[o][i].pitch = EncodedAngle(pl[lastOp.c].pitch)

Active(t) == thr[t].pc \notin {"idle", "done"}

(* The thread waits for a lock it cannot get; a reader also waits while a
   writer is queued, as a lock that prefers writers makes it. *)
Blocked(t) ==
  \/ thr[t].pc \in {"check", "rlock"} /\ (~CanRead(locks.cw) \/ ChunkWriterWaits)
  \/ thr[t].pc = "wlock" /\ ~CanWrite(locks.cr, locks.cw)
  \/ thr[t].pc \in {"g_check", "g_rlock"} /\ (~CanRead(locks.gw) \/ GenWriterWaits)
  \/ thr[t].pc = "g_wlock" /\ ~CanWrite(locks.gr, locks.gw)
  \/ thr[t].pc = "mlock" /\ rmap[thr[t].pos] \in DOMAIN mtx

(* C4: concurrent calls of World::chunk for a position that is not in the
   map insert exactly one chunk for it, every closure runs on that chunk
   and no two at once, and some thread inside a call can always go on. *)
C4_OneChunkPerPosition ==
  /\ \A q \in RacePos : rins[q] <= 1
  /\ \A t \in Threads :
       thr[t].pc \in {"in_f", "done"} =>
         /\ rins[thr[t].pos] = 1
         /\ thr[t].ran = <<thr[t].pos, 1>>
  /\ \A t1 \in Threads, t2 \in Threads :
       (t1 # t2 /\ thr[t1].pc = "in_f" /\ thr[t2].pc = "in_f") => thr[t1].ran # thr[t2].ran
  /\ (\E t \in Threads : Active(t)) => (\E t \in Threads : Active(t) /\ ~Blocked(t))

C4_Witness ==
  /\ \E t \in Threads : thr[t].pc = "entry" /\ thr[t].pos \in DOMAIN rmap
  /\ \E t1 \in Threads, t2 \in Threads :
       t1 # t2 /\ thr[t1].pos = thr[t2].pos /\ thr[t1].pc = "done" /\ Active(t2)

Returns == {i \in 1..Len(elog) : elog[i].e = "ret"}
(* The return that ends the call invoked at position j of the log, if any. *)
ReturnOf(j) ==
  {k \in Returns :
     /\ k > j /\ elog[k].t = elog[j].t
     /\ \A m \in (j + 1)..(k - 1) : elog[m].t # elog[j].t}

(* C5: the values World::eid returns are pairwise different, the values
   handed out are 1, 2, 3, ... with no gap, and a call returns a value
   larger than that of every call that returned before it was invoked. *)
C5_EidsDistinctAndGrowing ==
  /\ \A i \in Returns, k \in Returns : i # k => elog[i].v # elog[k].v
  /\ {elog[i].v : i \in Returns} \cup {ethr[t].val : t \in {x \in Threads : ethr[x].pc = "fetched"}}
       = 1..(Cardinality(Returns) + Cardinality({x \in Threads : ethr[x].pc = "fetched"}))
  /\ \A i \in Returns : \A j \in (i + 1)..Len(elog) :
       elog[j].e = "inv" => \A k \in ReturnOf(j) : elog[k].v > elog[i].v

C5_Witness ==
  /\ Len(elog) >= 6
  /\ elog[1].e = "inv" /\ elog[2].e = "inv" /\ elog[1].t # elog[2].t
  /\ elog[3].e = "ret" /\ elog[4].e = "ret" /\ elog[3].v > elog[4].v
  /\ elog[5].e = "inv" /\ elog[6].e = "ret"

(* A step that is one call of Player::tick, for the player lastOp'.c. *)
TickStep == lastOp'.kind = "tick" /\ steps' = steps + 1
LookMoved == pl'[lastOp'.c].yaw # pl[lastOp'.c].yaw \/ pl'[lastOp'.c].pitch # pl[lastOp'.c].pitch
PosMoved == pl'[lastOp'.c].curr # pl[lastOp'.c].curr
SentKinds(o) == {lastSent[o][i].t : i \in 1..Len(lastSent[o])}
InRelRange(o) == IF pl[o].ver = "V1_8" THEN ScaledFits(32, 127) ELSE ScaledFits(4096, 32767)

(* C11: per observer and tick, a look change alone gives EntityLook plus
   EntityHeadRotation, a position change alone (in relative range) exactly
   one RelEntityMove, both give EntityMoveLook without RelEntityMove or
   EntityLook, and no change gives no packet. *)
C11_PacketsPerChange ==
  [][TickStep =>
       \A o \in TickObservers' :
         /\ (LookMoved /\ ~PosMoved) =>
              /\ SentKinds(o)' = {"EntityLook", "EntityHeadRotation"}
              /\ Len(lastSent'[o]) = 2
         /\ (PosMoved /\ ~LookMoved /\ InRelRange(o)') =>
              /\ Len(lastSent'[o]) = 1
              /\ lastSent'[o][1].t = "RelEntityMove"
         /\ (PosMoved /\ LookMoved /\ InRelRange(o)') =>
              /\ "EntityMoveLook" \in SentKinds(o)'
              /\ SentKinds(o)' \cap {"RelEntityMove", "EntityLook"} = {}
         /\ (~PosMoved /\ ~LookMoved) => lastSent'[o] = <<>>]_vars

IsMovePacket(m) ==
  m.t \in {"EntityLook", "EntityHeadRotation", "RelEntityMove", "EntityMoveLook",
           "EntityTeleport"}
NearChunk(o, cpos) ==
  /\ Abs(cpos[1] - FPos_chunk(pl[o].curr)[1]) <= 10
  /\ Abs(cpos[2] - FPos_chunk(pl[o].curr)[2]) <= 10

(* C12: a tick in which the position or look changed sends movement packets
   to every other player in view of the mover's old or new chunk, and none
   to the mover. *)
C12_OldOrNewChunkObservers ==
  (lastOp.kind = "tick" /\ lastOp.ok) =>
    /\ \A o \in (DOMAIN pl) \ {lastOp.c} :
         (/\ pl[o].uuid \in DOMAIN players /\ players[pl[o].uuid] = o
          /\ pl[o].uuid # pl[lastOp.c].uuid
          /\ (NearChunk(o, FPos_chunk(lastOp.a)) \/ NearChunk(o, FPos_chunk(lastOp.b))))
         => \E i \in 1..Len(lastSent[o]) : IsMovePacket(lastSent[o][i])
    /\ \A i \in 1..Len(lastSent[lastOp.c]) : ~IsMovePacket(lastSent[lastOp.c][i])

(* The movement packets of the step carry the committed position. *)
PacketsShowCommit ==
  \A o \in TickObservers' : \A i \in 1..Len(lastSent'[o]) :
    /\ lastSent'[o][i].t = "EntityTeleport" => lastSent'[o][i].pos = pl'[lastOp'.c].curr
    /\ IsRelative(lastSent'[o][i]) =>
         (IF pl'[o].ver = "V1_8" THEN lastSent'[o][i].d_v1_8 ELSE lastSent'[o][i].d_v1_9)
           = [k \in 1..3 |->
                RoundDiv((pl'[lastOp'.c].curr[k] - pl'[lastOp'.c].prev[k])
                           * (IF pl'[o].ver = "V1_8" THEN 32 ELSE 4096), 8192)]

CommitMoves ==
  /\ pl'[lastOp'.c].prev = pl[lastOp'.c].curr
  /\ pl'[lastOp'.c].curr = pl[lastOp'.c].next
  /\ pl'[lastOp'.c].pitch >= 0 - 90 * YawUnit
  /\ pl'[lastOp'.c].pitch <= 90 * YawUnit
  /\ pl'[lastOp'.c].yaw >= 0

(* C13 (as amended): after every tick prev is the old curr and curr the
   position last given to set_next_pos, the committed pitch lies in
   [-90, 90] and the committed yaw in [0, 360] (360 included: a tiny
   negative yaw plus 360 rounds to 360.0 in f32) for every finite look, and
   the movement packets of the tick carry the committed values. *)
C13_CommitThenSend ==
  [][TickStep =>
       /\ CommitMoves
       /\ pl'[lastOp'.c].yaw <= 360 * YawUnit
       /\ PacketsShowCommit]_vars

C13_Witness ==
  /\ lastOp.kind = "tick"
  /\ pl[lastOp.c].yaw = 360 * YawUnit
  /\ pl[lastOp.c].next_yaw < 0
  /\ pl[lastOp.c].prev # pl[lastOp.c].curr
  /\ TickObservers # {}

(* C13 (original): as above with the committed yaw in [0, 360). *)
C13_YawBelow360 ==
  [][TickStep =>
       /\ CommitMoves
       /\ pl'[lastOp'.c].yaw < 360 * YawUnit
       /\ PacketsShowCommit]_vars

(* The chunk packets of the last tick, read as the client reads them. *)
IsLoad(m) == m.t = "MapChunk" /\ m.bit_map = 1
IsUnload(m) == m.t = "UnloadChunk" \/ (m.t = "MapChunk" /\ m.bit_map = 0)
LoadIdx == {i \in 1..Len(lastSent[lastOp.c]) : IsLoad(lastSent[lastOp.c][i])}
UnloadIdx == {i \in 1..Len(lastSent[lastOp.c]) : IsUnload(lastSent[lastOp.c][i])}
LoadedSet == {<<lastSent[lastOp.c][i].x, lastSent[lastOp.c][i].z>> : i \in LoadIdx}
UnloadedSet == {<<lastSent[lastOp.c][i].x, lastSent[lastOp.c][i].z>> : i \in UnloadIdx}
OldChunk == FPos_chunk(lastOp.a)
NewChunk == FPos_chunk(lastOp.b)
MovedAlongX == lastOp.kind = "tick" /\ NewChunk[1] > OldChunk[1] /\ NewChunk[2] = OldChunk[2]

(* C14 (as amended): for a move from chunk c to c + (dx, 0), dx > 0, the
   chunks sent are exactly {c.x+10 .. c.x+10+dx-1} x {c.z-10 .. c.z+9} and
   the chunks unloaded exactly {c.x-10 .. c.x-10+dx-1} x {c.z-10 .. c.z+9}:
   the view is the 20 x 20 square [c-10, c+10) on both axes. *)
C14_StripAlongX ==
  MovedAlongX =>
    /\ LoadedSet = ((OldChunk[1] + 10)..(NewChunk[1] + 9)) \X ((OldChunk[2] - 10)..(OldChunk[2] + 9))
    /\ UnloadedSet = ((OldChunk[1] - 10)..(NewChunk[1] - 11)) \X ((OldChunk[2] - 10)..(OldChunk[2] + 9))

C14_Witness == MovedAlongX /\ NewChunk[1] - OldChunk[1] = 2 /\ Cardinality(LoadedSet) = 40

(* C14 (original): the chunks sent are {c.x+11 .. c.x+10+dx} x {c.z-10 ..
   c.z+10} and the chunks unloaded {c.x-10 .. c.x-10+dx-1} x {c.z-10 .. c.z+10}. *)
C14_StripInclusive ==
  MovedAlongX =>
    /\ LoadedSet = ((OldChunk[1] + 11)..(NewChunk[1] + 10)) \X ((OldChunk[2] - 10)..(OldChunk[2] + 10))
    /\ UnloadedSet = ((OldChunk[1] - 10)..(NewChunk[1] - 11)) \X ((OldChunk[2] - 10)..(OldChunk[2] + 10))

(* The 20 x 20 view square of a chunk, as the streaming code lays it out. *)
ViewSquare(c) == ((c[1] - 10)..(c[1] + 9)) \X ((c[2] - 10)..(c[2] + 9))

(* C15: for every chunk-crossing move the chunks loaded are those of the
   new view square outside the old one, the chunks unloaded those of the
   old square outside the new one, and none is loaded or unloaded twice. *)
C15_LoadNewMinusOld ==
  (lastOp.kind = "tick" /\ OldChunk # NewChunk) =>
    /\ LoadedSet = ViewSquare(NewChunk) \ ViewSquare(OldChunk)
    /\ UnloadedSet = ViewSquare(OldChunk) \ ViewSquare(NewChunk)
    /\ Cardinality(LoadIdx) = Cardinality(LoadedSet)
    /\ Cardinality(UnloadIdx) = Cardinality(UnloadedSet)


(* C16: whenever the inbound stream of a connection has ended, with or
   without an error, the closed flag becomes true, so that the tick loop
   sees it and the player leaves the map.  Connection::run is the only code
   that stores the flag, so once the reader task is over the flag must be
   set. *)
ReaderOver(c) == ptask[c].reader \in {"done", "panic"}
C16_StreamEndSetsClosed == \A c \in Conns : ReaderOver(c) => cst[c].closed

(* C17: a send on a connection whose receiver was dropped returns normally:
   no tick task and not the global tick task ends in it. *)
C17_SendReturnsNormally ==
  /\ gtask.pc # "panic"
  /\ \A c \in Conns : ptask[c].ticker # "panic"

(* C18: the player-map mutex is not held while waiting on a send: the task
   that holds it is never suspended on a full queue. *)
SuspendedOn(left) == left # <<>> /\ ~CanSend(Head(left))
C18_NoWaitUnderMapMutex ==
  /\ pmtx = GlobalTask => ~SuspendedOn(gtask.left)
  /\ \A c \in Conns : pmtx = TickTask(c) => ~SuspendedOn(ptask[c].left)

(* C19: the packets enqueued on a connection start with Login, the MapChunk
   ring and Position, before anything from another task. *)
JoinSeq == <<"Login", "MapChunk", "Position">>
C19_JoinSequenceFirst ==
  \A c \in Conns : \A i \in 1..Len(cst[c].log) : i <= Len(JoinSeq) => cst[c].log[i] = JoinSeq[i]


(* C20: read returns a packet only when the length varint and all of the
   payload that follows it are buffered, and consumes nothing otherwise: the
   packets returned so far are the payloads of the frames written, in
   order. *)
C20_PacketsAreFrames ==
  /\ Len(jsr.out) <= Len(jsr.frames)
  /\ \A i \in 1..Len(jsr.out) : jsr.out[i] = jsr.frames[i]


(* C21: what JavaStreamWriter::write wrote is what the reader with the same
   settings returns: once every byte was polled and read has nothing more to
   return, the packets returned are the packets written, in order. *)
SameSettings == jsr.encAt <= 0
C21_RoundTrip ==
  (SameSettings /\ jsr.wire = <<>> /\ jsr.last = "none") => jsr.out = jsr.frames

(* C22: a packet delivered from a frame that announced the uncompressed
   length U # 0 has U bytes. *)
C22_InflatedLengthIsU ==
  (jsr.last = "packet" /\ jsr.u # 0) => Len(jsr.out[Len(jsr.out)]) = jsr.u

(* C23: every byte put into the ring buffer is the byte the peer wrote
   before encryption: bytes sent after the triggering packet are decrypted
   once, bytes before it are not. *)
C23_BufferedIsPlain ==
  \A i \in 1..Len(jsr.pushed) : jsr.pushed[i] = jsr.plain[i]

(* C24: for every version's packet list, the table built by generate_ids
   relates canonical ids and on-wire ids one-to-one: every packet of the
   version is reached from its canonical id, no on-wire id is the image of
   two canonical ids, and canonical -> on-wire -> canonical is the identity
   on every canonical id present in the version. *)
C24_IdsOneToOne ==
  LET wire == 0..(Len(pv.packets) - 1)
      canon == 0..(Len(pv.ids) - 1)
      present == {c \in canon : canonical_to_on_wire(pv.ids, c) # NoIndex}
  IN /\ \A i \in wire :
          canonical_to_on_wire(pv.ids, on_wire_to_canonical(pv.packets, i)) = i
     /\ \A c \in present :
          /\ canonical_to_on_wire(pv.ids, c) \in wire
          /\ on_wire_to_canonical(pv.packets, canonical_to_on_wire(pv.ids, c)) = c
     /\ \A c, d \in present :
          canonical_to_on_wire(pv.ids, c) = canonical_to_on_wire(pv.ids, d) => c = d
     /\ IdNone \notin present

(* A version of three or more packets whose on-wire order is not the order
   of the enum and that lacks a packet of the enum below its highest id. *)
C24_Witness ==
  /\ pv.loaded
  /\ Len(pv.packets) >= 3
  /\ \E c \in 2..Len(pv.ids) : pv.ids[c] = NoIndex
  /\ \E c, d \in 2..Len(pv.ids) :
       c < d /\ pv.ids[c] # NoIndex /\ pv.ids[d] # NoIndex /\ pv.ids[c] > pv.ids[d]

(* The table a converter call looks into, and whether the call is to_new. *)
ConvToNew == conv.fn \in {"block_to_new", "item_to_new", "entity_to_new"}
ConvTableLen ==
  CASE conv.fn = "block_to_new" -> Len(BlockToNewTable)
    [] conv.fn = "block_to_old" -> Len(BlockToOldTable)
    [] conv.fn = "item_to_new" -> Len(ItemToNewTable)
    [] conv.fn = "item_to_old" -> Len(ItemToOldTable)
    [] conv.fn = "entity_to_new" -> Len(EntityToNewTable)
    [] OTHER -> Len(EntityToOldTable)
ConvMissing ==
  \/ conv.id >= ConvTableLen
  \/ /\ conv.fn = "item_to_new"
     /\ conv.id < ConvTableLen
     /\ conv.damage >= Len(ItemToNewTable[conv.id + 1])

(* C25: for the block, item and entity converters and every version, id 0
   converts to 0 in both directions, the latest version returns the id
   unchanged in both directions, and an id with no entry in the version's
   table converts to 0 (item_to_old returns the id with damage 0). *)
C25_ConverterEdges ==
  conv.fn \in ConvFns =>
    /\ conv.id = 0 => conv.out[1] = 0
    /\ conv.ver = LatestBlockVersion => conv.out[1] = conv.id
    /\ (conv.ver # LatestBlockVersion /\ ConvMissing) => conv.out[1] = 0
    /\ Len(conv.out) = (IF conv.fn = "item_to_old" THEN 2 ELSE 1)
    /\ (conv.fn = "item_to_old" /\ (conv.id = 0 \/ conv.ver = LatestBlockVersion \/ ConvMissing))
         => conv.out[2] = 0

(* Air converted to the latest version from an old version whose to_new
   table holds another block at index 0. *)
C25_Witness ==
  /\ conv.fn = "block_to_new" /\ conv.id = 0 /\ conv.ver # LatestBlockVersion
  /\ BlockToNewTable[1] # 0
  /\ conv.out = <<0>>

(* Cells one step apart along an axis, and the transparent cells. *)
Adjacent(a, b) == Abs(a[1] - b[1]) + Abs(a[2] - b[2]) + Abs(a[3] - b[3]) = 1
TransparentCells == {c \in LightWin : Transparent(lit.kinds[c])}
(* The number of steps from the seed to each cell along transparent cells,
   Unreached where no such path exists. *)
Unreached == 0 - 1
RECURSIVE StepsFrom(_, _, _)
StepsFrom(dist, frontier, k) ==
  IF frontier = {} THEN dist
  ELSE LET next == {c \in TransparentCells :
                      dist[c] = Unreached /\ \E s \in frontier : Adjacent(s, c)}
       IN StepsFrom([c \in LightWin |-> IF c \in next THEN k + 1 ELSE dist[c]], next, k + 1)
Distance(seed) ==
  StepsFrom([c \in LightWin |-> IF c = seed THEN 0 ELSE Unreached], {seed}, 0)
LightAfterUpdate == lit.last.op = "block_update" /\ lit.last.clean

(* C26: after BlockLightChunk::update at a cell whose block emits E, in a
   chunk that held no light, the seed holds E and every transparent cell at
   shortest transparent-path distance d from it holds max(E - d, 0); a
   transparent cell that no transparent path reaches holds 0. *)
C26_BlockLightFalloff ==
  LightAfterUpdate =>
    LET seed == lit.last.pos
        E == lit.last.level
        d == Distance(seed)
    IN /\ lit.block[seed] = E
       /\ \A c \in TransparentCells \ {seed} :
            lit.block[c] = (IF d[c] = Unreached THEN 0 ELSE Max2(E - d[c], 0))

(* A torch at the end of the open corridor: 14 at the torch, 13 one step
   away, 1 thirteen steps away and 0 from fourteen steps on. *)
C26_Witness ==
  /\ LightAfterUpdate
  /\ lit.last.pos = <<3, 64, 0>> /\ lit.last.level = 14
  /\ \A c \in LightWin : c # <<3, 64, 0>> => lit.kinds[c] = "air"
  /\ lit.block[<<3, 64, 0>>] = 14
  /\ lit.block[<<3, 64, 1>>] = 13
  /\ lit.block[<<3, 64, 13>>] = 1
  /\ lit.block[<<3, 64, 14>>] = 0
  /\ lit.block[<<3, 64, 15>>] = 0

Smooth(light) ==
  \A a, b \in TransparentCells : Adjacent(a, b) => Abs(light[a] - light[b]) <= 1

(* C27: after any sequence of completed light updates (block light and sky
   light alike) on a chunk that started with no light, every two
   axis-adjacent transparent cells differ in light by at most 1.  The
   updates are complete when every cell changed has been updated since. *)
C27_NeighborsWithinOne ==
  lit.last.op \in {"block_update", "sky_update"} =>
    /\ lit.bdirty = {} => Smooth(lit.block)
    /\ lit.sdirty = {} => Smooth(lit.sky)

(* C28: after SkyLightChunk::update at a cell holding sky light L > 0 (no
   other sky light in the chunk), every cell straight below it through
   transparent blocks holds L, and a transparent cell k steps away along
   the corridor, through transparent blocks, holds L - k (not below 0). *)
C28_SkyColumnAndFalloff ==
  (lit.last.op = "sky_update" /\ lit.last.clean /\ lit.last.level > 0) =>
    LET seed == lit.last.pos
        L == lit.last.level
        Below(c) == /\ c[1] = seed[1] /\ c[3] = seed[3] /\ c[2] < seed[2]
                    /\ \A b \in LightWin :
                         (b[1] = c[1] /\ b[3] = c[3] /\ b[2] >= c[2] /\ b[2] < seed[2])
                           => b \in TransparentCells
        Along(c) == /\ c[1] = seed[1] /\ c[2] = seed[2] /\ c[3] # seed[3]
                    /\ \A b \in LightWin :
                         (b[1] = c[1] /\ b[2] = c[2] /\ b # seed
                            /\ Abs(b[3] - seed[3]) <= Abs(c[3] - seed[3])
                            /\ (b[3] - seed[3]) * (c[3] - seed[3]) > 0)
                           => b \in TransparentCells
    IN /\ \A c \in LightWin : Below(c) => lit.sky[c] = L
       /\ \A c \in LightWin : Along(c) => lit.sky[c] = Max2(L - Abs(c[3] - seed[3]), 0)

(* C29: after any sequence of set_on_block_place registrations, an
   on_block_place event invokes exactly the most recently registered
   handler, once, with the event's player and position; a handler replaced
   earlier is not invoked, and with no handler registered nothing is. *)
C29_MostRecentHandler ==
  [][plug'.events = plug.events + 1 =>
       IF plug.regs = <<>>
       THEN plug'.calls = plug.calls
       ELSE plug'.calls = Append(plug.calls, [h |-> plug.regs[Len(plug.regs)],
                                              player |-> plug'.ev.id,
                                              pos |-> plug'.ev.pos])]_vars

(* An event after a handler was replaced by another one. *)
C29_Witness ==
  /\ plug.last = "event"
  /\ Len(plug.regs) >= 2
  /\ plug.regs[1] # plug.regs[Len(plug.regs)]
  /\ plug.calls # <<>>
  /\ plug.calls[Len(plug.calls)].h = plug.regs[Len(plug.regs)]

(* C30: after any sequence of PlayerInventory operations (set_selected with
   any received index, set, get), selected_index is within 0..=8, so
   main_hand reads a slot in 36..=44 of the 46-slot inventory. *)
C30_SelectedInHotbar ==
  /\ pinv.selected_index \in 0..8
  /\ pinv.last = "main_hand" => pinv.read \in HotbarStart..(HotbarStart + 8)

(* C31: after World::fill over a region of more than one block, each player
   in view of an affected chunk receives for that chunk a MultiBlockChange
   whose records list the positions the fill changed in that chunk. *)
C31_FillRecords ==
  (lastOp.kind = "fill" /\ lastOp.ok /\ lastOp.a # lastOp.b) =>
    LET cps == SeqElems(RectSeqIncl(Pos_chunk(lastOp.a), Pos_chunk(lastOp.b)))
    IN \A c \in Conns : \A i \in 1..Len(lastSent[c]) :
         LET p == lastSent[c][i]
         IN p.t = "MultiBlockChange" =>
              /\ p.records # <<>>
              /\ \E cp \in cps :
                   /\ p.chunk \in {<<>>, cp}
                   /\ \A w \in WorldCells :
                        (InBox(w, lastOp.a, lastOp.b) /\ Pos_chunk(w) = cp)
                          => \E j \in 1..Len(p.records) : p.records[j] = w

(* C32: chunk serialization is defined for every supported protocol version
   from V1_8 through V1_16_5: serialize_chunk of the server and
   packet::chunk of the proxy return a MapChunk packet and do not abort. *)
C32_EveryVersionSerializes ==
  ser.fn \in {"packet::chunk", "serialize_chunk"} => ser.out.res = "MapChunk"

(* C33: every 20 global ticks the value published in the footer is the mean
   milliseconds per tick over the last second: the tick times accumulated
   since the previous publication divided by the number of ticks they
   cover, whatever the number of players. *)
C33_FooterIsMean ==
  (mspt.last = "publish" /\ mspt.pubCnt > 0) => mspt.pub = mspt.pubSum \div mspt.pubCnt

(* C34: Parser::parse returns the parsed argument with the number of
   characters it consumed: the first space-delimited token for Bool, Int
   and SingleWord (a number outside [min, max] gives ParseError::Range),
   the span through the closing quote for a quoted QuotablePhrase, the
   three coordinates and their two separators for BlockPos; the count never
   exceeds the length of the input. *)
C34_ConsumedCount ==
  LET p == prs.parser.t
      text == prs.text
      r == prs.res
      token == Section(text)
      num == i32_from_str(token)
      outside == \/ prs.parser.min # NoBound /\ num.v < prs.parser.min[1]
                 \/ prs.parser.max # NoBound /\ num.v > prs.parser.max[1]
  IN /\ r.ok => r.len <= Len(text)
     /\ (r.ok /\ p \in {"Bool", "Int", "SingleWord"}) => r.len = Len(token)
     /\ (p = "Int" /\ num.ok /\ outside) => (~r.ok /\ r.err = "Range")
     /\ (r.ok /\ p = "QuotablePhrase" /\ text[1] = "\"") =>
          (r.len >= 2 /\ r.len <= Len(text) /\ text[r.len] = "\"")
     /\ (r.ok /\ p = "BlockPos") =>
          (r.len <= Len(text) /\ Len(Split(SubSeq(text, 1, r.len))) = 3)

(* The values a property may take. *)
PropValues(p) ==
  CASE p.k = "Bool" -> {StateBool(TRUE), StateBool(FALSE)}
    [] p.k = "Enum" -> {StateEnum(i - 1, p.v[i]) : i \in 1..Len(p.v)}
    [] OTHER -> {StateInt(i) : i \in p.min..p.max}
Combinations(properties) ==
  {c \in [1..Len(properties) -> UNION {PropValues(properties[i]) : i \in 1..Len(properties)}] :
     \A i \in 1..Len(properties) : c[i] \in PropValues(properties[i])}

(* C35: Block::all_states returns exactly one state for every combination
   of property values: as many states as the product of the properties'
   lengths, none repeated, none missing, an Int property ranging over
   min..=max. *)
C35_AllCombinations ==
  blk.called =>
    /\ Len(blk.states) = Cardinality(Combinations(blk.properties))
    /\ \A i, j \in 1..Len(blk.states) : blk.states[i] = blk.states[j] => i = j
    /\ \A c \in Combinations(blk.properties) : \E i \in 1..Len(blk.states) : blk.states[i] = c
    /\ \A i \in 1..Len(blk.states) : blk.states[i] \in Combinations(blk.properties)

(* C36: BlockLightChunk::update and SkyLightChunk::update terminate for
   every chunk content, seed cell and level: once entered, the work queue
   eventually becomes empty and the update returns, also for a sky light
   seed above transparent cells and when cells are queued again from
   several neighbors. *)
C36_UpdateTerminates == (lq.phase = "run") ~> (lq.phase = "done" /\ lq.queue = <<>>)
C36_Witness ==
  /\ lq.phase = "done" /\ lq.fn = "sky" /\ lq.repeated
  /\ lq.light[lq.pos] = 15
  /\ Transparent(lq.kinds[<<lq.pos[1], lq.pos[2] - 1, lq.pos[3]>>])

(* C37: an EntityTeleport sent by Player::tick carries yaw and pitch in
   the encoding of the other movement packets,
   round(deg / 360 * 256) as i8, for observers of every version. *)
C37_TeleportAngles ==
  lastOp.kind = "tick" =>
    \A o \in Conns : \A i \in 1..Len(lastSent[o]) :
      lastSent[o][i].t = "EntityTeleport" =>
        /\ lastSent[o][i].yaw = AngleByte(pl[lastOp.c].yaw)
        /\ lastSent[o][i].pitch = AngleByte(pl[lastOp.c].pitch)

(* C38: after any MeshChunk::set_block or MeshChunk::fill the mesh is
   marked outdated, so the next get_vbuf returns a mesh built from the
   changed blocks. *)
C38_MutationMarksOutdated ==
  /\ mesh.last \in {"set_block", "fill"} => mesh.outdated
  /\ mesh.last = "get_vbuf" => mesh.vbuf = MeshFaces(mesh.blocks)

(* C39: when two consecutive ticks of a player have no set_next_pos or
   set_next_look call between them, the second tick sends no movement
   packet to any observer, whatever look values were received earlier. *)
MovementTypes ==
  {"EntityLook", "EntityHeadRotation", "RelEntityMove", "EntityMoveLook", "EntityTeleport"}
C39_IdleTickIsSilent ==
  [][(lastOp.kind = "tick" /\ lastOp'.kind = "tick" /\ lastOp'.c = lastOp.c /\ steps' = steps + 1)
       => \A o \in Conns : \A i \in 1..Len(lastSent'[o]) : lastSent'[o][i].t \notin MovementTypes]_vars

(* C40: every byte JavaStreamReader::poll receives from the socket is
   buffered, none dropped, and handed to read in arrival order: the bytes
   put into the ring buffer followed by those still on the wire are the
   bytes written, and once everything was polled and read has nothing more
   to return, every frame written was returned, also one longer than the
   1024 byte buffer. *)
C40_NoByteDropped ==
  /\ jsr.pushed \o jsr.wire = jsr.plain
  /\ (jsr.wire = <<>> /\ jsr.last = "none") => jsr.out = jsr.frames

====
